---- MODULE Spec2Model ----
(***************************************************************************)
(* Text automaton of grossapp: the cassette label grammar (cassette.js)    *)
(* and the history tape of the dictation buffer (app.js).                  *)
(*                                                                         *)
(* A text is a sequence of characters; a character is a one-token string.  *)
(* The characters the grammar distinguishes are named below.               *)
(***************************************************************************)
EXTENDS Integers, Sequences, FiniteSets, TLC

\* ------------------------------------------------------------------------
\* Characters and character classes of the regular expressions
\* ------------------------------------------------------------------------

TAB == "\t"
NL == "\n"
SPACE == " "
HYPHEN == "-"
ENDASH == "en-dash"
EMDASH == "em-dash"
COLON == ":"

Alphabet == << "A", "B", "C", "D", "E", "F", "G", "H", "I", "J", "K", "L", "M",
              "N", "O", "P", "Q", "R", "S", "T", "U", "V", "W", "X", "Y", "Z" >>

DigitChars == << "0", "1", "2", "3", "4", "5", "6", "7", "8", "9" >>

\* [A-Z]
IsLetter(c) == \E i \in 1..Len(Alphabet) : Alphabet[i] = c

\* \d
IsDigit(c) == \E i \in 1..Len(DigitChars) : DigitChars[i] = c

\* [-–—]
IsDash(c) == c \in {HYPHEN, ENDASH, EMDASH}

\* \s, over the characters of the model
IsSpace(c) == c \in {SPACE, TAB, NL}

\* charCodeAt(0) relative to 'A' (0..25); String.fromCharCode is Alphabet[k+1]
LetterCode(c) == CHOOSE i \in 0..(Len(Alphabet) - 1) : Alphabet[i + 1] = c

DigitVal(c) == CHOOSE i \in 0..9 : DigitChars[i + 1] = c

\* String.prototype.trimEnd
RECURSIVE TrimEnd(_)
TrimEnd(s) ==
    IF s = << >> THEN << >>
    ELSE IF IsSpace(s[Len(s)]) THEN TrimEnd(SubSeq(s, 1, Len(s) - 1))
    ELSE s

\* parseInt(digits, 10) of a non-empty digit string
RECURSIVE ParseInt(_)
ParseInt(ds) ==
    IF ds = << >> THEN 0
    ELSE ParseInt(SubSeq(ds, 1, Len(ds) - 1)) * 10 + DigitVal(ds[Len(ds)])

\* String(n) / template-literal formatting of a non-negative integer
RECURSIVE NumToStr(_)
NumToStr(n) ==
    IF n < 10 THEN << DigitChars[n + 1] >>
    ELSE NumToStr(n \div 10) \o << DigitChars[(n % 10) + 1] >>

\* Length of the longest run of digits of t that starts at position p (\d+, \d*)
RECURSIVE DigitRun(_, _)
DigitRun(t, p) ==
    IF p <= Len(t) /\ IsDigit(t[p]) THEN 1 + DigitRun(t, p + 1) ELSE 0

\* Length of the longest run of letters of t that starts at position p
RECURSIVE LetterRun(_, _)
LetterRun(t, p) ==
    IF p <= Len(t) /\ IsLetter(t[p]) THEN 1 + LetterRun(t, p + 1) ELSE 0

\* The separator group ([\t\-–—]|:\s?|\s) matched at position p:
\* the length it consumes, 0 when it does not match.
SepLen(t, p) ==
    IF p > Len(t) THEN 0
    ELSE IF t[p] = TAB \/ IsDash(t[p]) THEN 1
    ELSE IF t[p] = COLON
         THEN (IF p + 1 <= Len(t) /\ IsSpace(t[p + 1]) THEN 2 ELSE 1)
    ELSE IF IsSpace(t[p]) THEN 1
    ELSE 0

\* ------------------------------------------------------------------------
\* Formats and patterns
\* ------------------------------------------------------------------------

FORMAT_LN == "letter-number"
FORMAT_NL == "number-letter"

NoMatch == [ok |-> FALSE]

\* /^([A-Z])(\d+)([\t\-–—]|:\s?|\s)/
BLOCK_LN(t) ==
    LET d == DigitRun(t, 2)
        s == SepLen(t, 2 + d)
    IN  IF Len(t) >= 1 /\ IsLetter(t[1]) /\ d >= 1 /\ s >= 1
        THEN [ok |-> TRUE,
              g1 |-> t[1],
              g2 |-> SubSeq(t, 2, 1 + d),
              g3 |-> SubSeq(t, 2 + d, 1 + d + s),
              all |-> SubSeq(t, 1, 1 + d + s)]
        ELSE NoMatch

\* /^([A-Z])(\d+)[-–—]([A-Z])?(\d+)([\t\-–—]|:\s?|\s)/
\* g3 is << >> when the optional end letter did not take part in the match.
RANGE_LN(t) ==
    LET d1 == DigitRun(t, 2)
        pd == 2 + d1                       \* position of the dash
        hasL == pd + 1 <= Len(t) /\ IsLetter(t[pd + 1])
        p2 == IF hasL THEN pd + 2 ELSE pd + 1
        d2 == DigitRun(t, p2)
        s == SepLen(t, p2 + d2)
    IN  IF /\ Len(t) >= 1 /\ IsLetter(t[1]) /\ d1 >= 1
           /\ pd <= Len(t) /\ IsDash(t[pd])
           /\ d2 >= 1 /\ s >= 1
        THEN [ok |-> TRUE,
              g1 |-> t[1],
              g2 |-> SubSeq(t, 2, 1 + d1),
              g3 |-> IF hasL THEN << t[pd + 1] >> ELSE << >>,
              g4 |-> SubSeq(t, p2, p2 + d2 - 1),
              g5 |-> SubSeq(t, p2 + d2, p2 + d2 + s - 1),
              all |-> SubSeq(t, 1, p2 + d2 + s - 1)]
        ELSE NoMatch

\* /^(\d+)([A-Z]{1,2})([\t\-–—]|:\s?|\s)/
BLOCK_NL(t) ==
    LET d == DigitRun(t, 1)
        l == LetterRun(t, 1 + d)
        s == SepLen(t, 1 + d + l)
    IN  IF d >= 1 /\ l \in {1, 2} /\ s >= 1
        THEN [ok |-> TRUE,
              g1 |-> SubSeq(t, 1, d),
              g2 |-> SubSeq(t, 1 + d, d + l),
              g3 |-> SubSeq(t, 1 + d + l, d + l + s),
              all |-> SubSeq(t, 1, d + l + s)]
        ELSE NoMatch

\* /^(\d+)([A-Z]{1,2})[-–—](\d+)?([A-Z]{1,2})([\t\-–—]|:\s?|\s)/
\* g3 is << >> when the optional end specimen number did not take part.
RANGE_NL(t) ==
    LET d1 == DigitRun(t, 1)
        l1 == LetterRun(t, 1 + d1)
        pd == 1 + d1 + l1                  \* position of the dash
        d2 == DigitRun(t, pd + 1)
        p2 == pd + 1 + d2
        l2 == LetterRun(t, p2)
        s == SepLen(t, p2 + l2)
    IN  IF /\ d1 >= 1 /\ l1 \in {1, 2}
           /\ pd <= Len(t) /\ IsDash(t[pd])
           /\ l2 \in {1, 2} /\ s >= 1
        THEN [ok |-> TRUE,
              g1 |-> SubSeq(t, 1, d1),
              g2 |-> SubSeq(t, 1 + d1, d1 + l1),
              g3 |-> SubSeq(t, pd + 1, pd + d2),
              g4 |-> SubSeq(t, p2, p2 + l2 - 1),
              g5 |-> SubSeq(t, p2 + l2, p2 + l2 + s - 1),
              all |-> SubSeq(t, 1, p2 + l2 + s - 1)]
        ELSE NoMatch

\* ------------------------------------------------------------------------
\* Number-letter helper
\* ------------------------------------------------------------------------

\* The loop of nextLetterSuffix from index i (1-based) down to the first
\* character; arr holds the characters already reset to 'A' behind i.
RECURSIVE SuffixLoop(_, _)
SuffixLoop(arr, i) ==
    IF i < 1 THEN << "A" >> \o arr
    ELSE IF LetterCode(arr[i]) < LetterCode("Z")
         THEN [arr EXCEPT ![i] = Alphabet[LetterCode(arr[i]) + 2]]
    ELSE SuffixLoop([arr EXCEPT ![i] = "A"], i - 1)

\* nextLetterSuffix whose overflow return forgets the leading 'A'
nextLetterSuffix_DropsOverflow(letters) ==
    LET r == SuffixLoop(letters, Len(letters))
    IN  IF Len(r) > Len(letters) THEN Tail(r) ELSE r

nextLetterSuffix(letters) == SuffixLoop(letters, Len(letters))

\* ------------------------------------------------------------------------
\* Parsing
\* ------------------------------------------------------------------------

NULL == [ok |-> FALSE]

\* The result built from a match rr of RANGE_NL
RangeFromNL(rr) ==
    [ok |-> TRUE,
     specimen |-> IF rr.g3 # << >> THEN rr.g3 ELSE rr.g1,
     suffix |-> rr.g4,
     separator |-> rr.g5,
     raw |-> rr.all,
     isRange |-> TRUE,
     rangeStart |-> rr.g2,
     startSpec |-> rr.g1]

\* The result built from a match br of BLOCK_NL
BlockFromNL(br) ==
    [ok |-> TRUE,
     specimen |-> br.g1,
     suffix |-> br.g2,
     separator |-> br.g3,
     raw |-> br.all,
     isRange |-> FALSE]

\* The result built from a match rm of RANGE_LN: null for a backward range
\* on one letter
RangeFromLN(rm) ==
    LET startLetter == rm.g1
        startNum == ParseInt(rm.g2)
        endLetter == IF rm.g3 # << >> THEN rm.g3[1] ELSE startLetter
        endNum == ParseInt(rm.g4)
    IN  IF endNum < startNum /\ endLetter = startLetter
        THEN NULL
        ELSE [ok |-> TRUE,
              specimen |-> endLetter,
              suffix |-> endNum,
              separator |-> rm.g5,
              raw |-> rm.all,
              isRange |-> TRUE,
              rangeStart |-> startNum,
              startLetter |-> startLetter]

\* The result built from a match bm of BLOCK_LN
BlockFromLN(bm) ==
    [ok |-> TRUE,
     specimen |-> bm.g1,
     suffix |-> ParseInt(bm.g2),
     separator |-> bm.g3,
     raw |-> bm.all,
     isRange |-> FALSE]

\* parseBlockLine on the trimmed line t: the range pattern first, then the
\* single-block pattern
ParseTrimmed(t, fmt) ==
    IF fmt = FORMAT_NL
    THEN IF RANGE_NL(t).ok THEN RangeFromNL(RANGE_NL(t))
         ELSE IF BLOCK_NL(t).ok THEN BlockFromNL(BLOCK_NL(t))
         ELSE NULL
    ELSE IF RANGE_LN(t).ok THEN RangeFromLN(RANGE_LN(t))
         ELSE IF BLOCK_LN(t).ok THEN BlockFromLN(BLOCK_LN(t))
         ELSE NULL

parseBlockLine(line, fmt) == ParseTrimmed(TrimEnd(line), fmt)

\* normalizeSeparator: an absent or empty separator becomes "-"
normalizeSeparator(sep) == IF sep = << >> THEN << HYPHEN >> ELSE sep

\* nextPrefix(parsed, overrideSep); overrideSep = << >> stands for "not given"
nextPrefix(parsed, overrideSep, fmt) ==
    LET sep == normalizeSeparator(IF overrideSep # << >> THEN overrideSep
                                  ELSE parsed.separator)
    IN  IF fmt = FORMAT_NL
        THEN parsed.specimen \o nextLetterSuffix(parsed.suffix) \o sep
        ELSE << parsed.specimen >> \o NumToStr(parsed.suffix + 1) \o sep

\* The character whose code is one more than that of the capital c
CharAfter(c) == IF c = "Z" THEN "[" ELSE Alphabet[LetterCode(c) + 2]

\* nextSpecimenPrefix(parsed, overrideSep); overrideSep = << >> stands for
\* "not given"
nextSpecimenPrefix(parsed, overrideSep, fmt) ==
    LET sep == normalizeSeparator(IF overrideSep # << >> THEN overrideSep
                                  ELSE parsed.separator)
    IN  IF fmt = FORMAT_NL
        THEN NumToStr(ParseInt(parsed.specimen) + 1) \o << "A" >> \o sep
        ELSE << CharAfter(parsed.specimen), "1" >> \o sep

\* ------------------------------------------------------------------------
\* String helpers of the host language (0-based offsets, as in the source)
\* ------------------------------------------------------------------------

Min(a, b) == IF a < b THEN a ELSE b
Max(a, b) == IF a > b THEN a ELSE b
Clamp(i, n) == Max(0, Min(i, n))

\* text.substring(a, b): arguments clamped to [0, length] and swapped if a > b
Substring(text, a, b) ==
    LET lo == Clamp(Min(a, b), Len(text))
        hi == Clamp(Max(a, b), Len(text))
    IN  SubSeq(text, lo + 1, hi)

\* text.substring(a)
SubstringFrom(text, a) == Substring(text, a, Len(text))

\* text.lastIndexOf('\n', from): a negative from is taken as 0
LastIndexOfNL(text, from) ==
    LET hi == Min(Max(from, 0), Len(text) - 1)
        hits == {i \in 0..hi : text[i + 1] = NL}
    IN  IF hits = {} THEN -1 ELSE CHOOSE i \in hits : \A j \in hits : j <= i

\* text.indexOf('\n', from)
IndexOfNL(text, from) ==
    LET hits == {i \in Max(from, 0)..(Len(text) - 1) : text[i + 1] = NL}
    IN  IF hits = {} THEN -1 ELSE CHOOSE i \in hits : \A j \in hits : i <= j

\* text.split('\n')
RECURSIVE Split(_)
Split(text) ==
    LET k == IndexOfNL(text, 0)
    IN  IF k = -1 THEN << text >>
        ELSE << Substring(text, 0, k) >> \o Split(SubstringFrom(text, k + 1))

RECURSIVE TrimStart(_)
TrimStart(s) ==
    IF s = << >> THEN << >>
    ELSE IF IsSpace(s[1]) THEN TrimStart(Tail(s))
    ELSE s

\* String.prototype.trim
Trim(s) == TrimStart(TrimEnd(s))

\* The line the offset pos is on, as onInput, cursorIsOnEmptyLine and
\* getPlaceholderOnCurrentLine compute it
LineStartOf(text, pos) == LastIndexOfNL(text, pos - 1) + 1

LineAt(text, pos) ==
    LET lineStart == LineStartOf(text, pos)
        lineEnd == IndexOfNL(text, pos)
    IN  Substring(text, lineStart, IF lineEnd = -1 THEN Len(text) ELSE lineEnd)

\* Length of the longest run of [\s_] characters of t that starts at p
RECURSIVE BlankRun(_, _)
BlankRun(t, p) ==
    IF p <= Len(t) /\ (IsSpace(t[p]) \/ t[p] = "_") THEN 1 + BlankRun(t, p + 1)
    ELSE 0

\* /^(\[[\s_]*\])([\t\-–—]|:\s?|\s)/
PLACEHOLDER_LINE_PATTERN(t) ==
    LET b == BlankRun(t, 2)
        pc == 2 + b                        \* position of the closing bracket
        s == SepLen(t, pc + 1)
    IN  IF /\ Len(t) >= 1 /\ t[1] = "["
           /\ pc <= Len(t) /\ t[pc] = "]"
           /\ s >= 1
        THEN [ok |-> TRUE,
              g1 |-> SubSeq(t, 1, pc),
              g2 |-> SubSeq(t, pc + 1, pc + s),
              all |-> SubSeq(t, 1, pc + s)]
        ELSE NoMatch

\* ------------------------------------------------------------------------
\* Cursor helpers of the increment engine
\* ------------------------------------------------------------------------

\* The scan of getPreviousNonEmptyLine over lines[i], i = k down to 1
RECURSIVE PrevNonEmptyScan(_, _)
PrevNonEmptyScan(lines, k) ==
    IF k < 1 THEN NULL
    ELSE IF Trim(lines[k]) # << >> THEN [ok |-> TRUE, line |-> lines[k]]
    ELSE PrevNonEmptyScan(lines, k - 1)

getPreviousNonEmptyLine(text, pos) ==
    LET lines == Split(Substring(text, 0, pos))
    IN  PrevNonEmptyScan(lines, Len(lines) - 1)

\* The scan of findLastBlock over lines[i], i = k down to 1
RECURSIVE LastBlockScan(_, _, _)
\* The scan without the test that skips indented lines
LastBlockScan_KeepsIndented(lines, k, fmt) ==
    IF k < 1 THEN NULL
    ELSE IF PLACEHOLDER_LINE_PATTERN(lines[k]).ok THEN LastBlockScan(lines, k - 1, fmt)
    ELSE IF parseBlockLine(TrimStart(lines[k]), fmt).ok
         THEN [ok |-> TRUE, parsed |-> parseBlockLine(TrimStart(lines[k]), fmt),
               lineIndex |-> k - 1]
    ELSE LastBlockScan(lines, k - 1, fmt)

LastBlockScan(lines, k, fmt) ==
    IF k < 1 THEN NULL
    ELSE LET line == lines[k] IN
         IF line # << >> /\ IsSpace(line[1]) THEN LastBlockScan(lines, k - 1, fmt)
         ELSE IF PLACEHOLDER_LINE_PATTERN(line).ok THEN LastBlockScan(lines, k - 1, fmt)
         ELSE IF parseBlockLine(line, fmt).ok
              THEN [ok |-> TRUE, parsed |-> parseBlockLine(line, fmt), lineIndex |-> k - 1]
         ELSE LastBlockScan(lines, k - 1, fmt)

findLastBlock(text, upToPos, fmt) ==
    LET lines == Split(Substring(text, 0, upToPos))
    IN  LastBlockScan(lines, Len(lines), fmt)

\* ------------------------------------------------------------------------
\* Increment engine: the input listener
\* ------------------------------------------------------------------------

NoInsert == [ok |-> FALSE]

NoAdvance == [ok |-> FALSE]

\* The detail whose `to` repeats the label of the block it came from
AdvanceDetail_StaleTo(parsed, prefix, wasRange, wasPlaceholder, fmt) ==
    [ok |-> TRUE,
     letter |-> parsed.specimen,
     from |-> parsed.suffix,
     to |-> parsed.suffix,
     prefix |-> prefix,
     wasRange |-> wasRange,
     wasPlaceholder |-> wasPlaceholder]

\* detail of the cassette:advance event
AdvanceDetail(parsed, prefix, wasRange, wasPlaceholder, fmt) ==
    [ok |-> TRUE,
     letter |-> parsed.specimen,
     from |-> parsed.suffix,
     to |-> IF fmt = FORMAT_NL THEN nextLetterSuffix(parsed.suffix)
            ELSE parsed.suffix + 1,
     prefix |-> prefix,
     wasRange |-> wasRange,
     wasPlaceholder |-> wasPlaceholder]

\* The textarea and engine fields as one record, threaded through a handler
Engine(v, ss, se, ign, lai, adv) ==
    [value |-> v, selectionStart |-> ss, selectionEnd |-> se,
     ignoreNext |-> ign, lastAutoInsert |-> lai, advance |-> adv]

\* The insertion every branch of the engine makes: prefix goes in at lineStart
\* in place of the `removed` characters there, the caret lands `kept`
\* characters after it, _ignoreNext is set, lastAutoInsert records the prefix
\* and cassette:advance is dispatched
InsertPrefix(e, lineStart, removed, kept, parsed, prefix, wasRange, wasPlaceholder, fmt) ==
    Engine(Substring(e.value, 0, lineStart) \o prefix
               \o SubstringFrom(e.value, lineStart + removed),
           lineStart + Len(prefix) + kept,
           lineStart + Len(prefix) + kept,
           TRUE,
           [ok |-> TRUE, inserted |-> prefix, length |-> Len(prefix),
            wasPlaceholder |-> FALSE],
           AdvanceDetail(parsed, prefix, wasRange, wasPlaceholder, fmt))

\* tryAutoAdvance once findLastBlock has returned result: prependToCurrentLine
\* keeps the characters between the line start and the caret
AdvanceFrom(e, result, fmt) ==
    IF ~result.ok THEN e
    ELSE InsertPrefix(e, LineStartOf(e.value, e.selectionStart), 0,
                      e.selectionStart - LineStartOf(e.value, e.selectionStart),
                      result.parsed, nextPrefix(result.parsed, << >>, fmt),
                      result.parsed.isRange, FALSE, fmt)

\* tryAutoAdvance: first character typed on a line
tryAutoAdvance(e, fmt) ==
    AdvanceFrom(e, findLastBlock(e.value, e.selectionStart, fmt), fmt)

\* onInput, case 1 on an empty line, once findLastBlock has returned result
EmptyLineFrom(e, lineStart, result, fmt) ==
    IF ~result.ok THEN e
    ELSE InsertPrefix(e, lineStart, 0, 0, result.parsed,
                      nextPrefix(result.parsed, << >>, fmt), FALSE, FALSE, fmt)

\* onInput, case 1: the caret is on an empty line or behind the first
\* character of a line; prevLine is what getPreviousNonEmptyLine returned
NewLineCase(e, lineStart, line, prevLine, fmt) ==
    IF ~prevLine.ok THEN e
    ELSE IF ~parseBlockLine(prevLine.line, fmt).ok THEN e
    ELSE IF Trim(line) = << >>
    THEN EmptyLineFrom(e, lineStart,
                       findLastBlock(e.value, e.selectionStart, fmt), fmt)
    ELSE tryAutoAdvance(e, fmt)

\* onInput, case 2 with the placeholder match phm, once findLastBlock has
\* returned result
PlaceholderFrom(e, lineStart, phm, result, fmt) ==
    IF ~result.ok THEN e
    ELSE InsertPrefix(e, lineStart, 1 + Len(phm.all), 0, result.parsed,
                      nextPrefix(result.parsed, normalizeSeparator(phm.g2), fmt),
                      FALSE, TRUE, fmt)

\* onInput, case 2: a character typed at the start of a placeholder line
PlaceholderCase(e, lineStart, phm, fmt) ==
    IF ~phm.ok THEN e
    ELSE PlaceholderFrom(e, lineStart, phm,
                         findLastBlock(e.value, lineStart, fmt), fmt)

\* onInput past the _ignoreNext test, on the line the caret is on
OnLine(e, lineStart, line, fmt) ==
    IF Trim(line) = << >> \/ Len(line) = 1
    THEN NewLineCase(e, lineStart, line,
                     getPreviousNonEmptyLine(e.value, e.selectionStart), fmt)
    ELSE PlaceholderCase(e, lineStart,
                         PLACEHOLDER_LINE_PATTERN(SubstringFrom(line, 1)), fmt)

\* onInput(e): e is the engine record before the listener runs (advance unset)
onInput(e, fmt) ==
    IF e.ignoreNext THEN [e EXCEPT !.ignoreNext = FALSE]
    ELSE OnLine(e, LineStartOf(e.value, e.selectionStart),
                LineAt(e.value, e.selectionStart), fmt)

\* ------------------------------------------------------------------------
\* Field navigator and auto-advance: pure helpers
\* ------------------------------------------------------------------------

LowerAlphabet == << "a", "b", "c", "d", "e", "f", "g", "h", "i", "j", "k", "l", "m",
                    "n", "o", "p", "q", "r", "s", "t", "u", "v", "w", "x", "y", "z" >>

\* String.prototype.toLowerCase
ToLowerCase(s) ==
    [i \in 1..Len(s) |-> IF IsLetter(s[i]) THEN LowerAlphabet[LetterCode(s[i]) + 1]
                         ELSE s[i]]

\* text.lastIndexOf(c, from): a negative from is taken as 0
LastIndexOf(text, c, from) ==
    LET hits == {i \in 0..Min(Max(from, 0), Len(text) - 1) : text[i + 1] = c}
    IN  IF hits = {} THEN -1 ELSE CHOOSE i \in hits : \A j \in hits : j <= i

\* text.indexOf(c, from)
IndexOf(text, c, from) ==
    LET hits == {i \in Max(from, 0)..(Len(text) - 1) : text[i + 1] = c}
    IN  IF hits = {} THEN -1 ELSE CHOOSE i \in hits : \A j \in hits : i <= j

\* isCursorInField once lb and rb are known
InFieldBetween(text, pos, lb, rb) ==
    /\ lb >= 0
    /\ rb >= 0
    /\ pos > lb
    /\ pos <= rb + 1
    /\ \A i \in (lb + 1)..(pos - 1) : text[i + 1] # "]"

InFieldFrom(text, pos, lb) ==
    InFieldBetween(text, pos, lb, IF lb < 0 THEN -1 ELSE IndexOf(text, "]", lb))

\* isCursorInField(text, pos): pos is inside a [...] placeholder
isCursorInField(text, pos) == InFieldFrom(text, pos, LastIndexOf(text, "[", pos - 1))

\* The offsets at which /\[[^\]]*\]/g matches in text: a '[' with a ']' behind
\* it that does not lie inside an earlier match, that is, every '[' before it
\* is closed before it
FieldStarts(text) ==
    { p \in 0..(Len(text) - 1) :
        /\ text[p + 1] = "["
        /\ \E r \in (p + 1)..(Len(text) - 1) : text[r + 1] = "]"
        /\ \A k \in 0..(p - 1) :
               text[k + 1] = "[" => \E m \in (k + 1)..(p - 1) : text[m + 1] = "]" }

\* The match at offset p: it ends behind the first ']' after p
FieldAt(text, p) == [start |-> p, end |-> IndexOf(text, "]", p) + 1]

\* findAllFields(text): the matches in the order of their offsets
findAllFields(text) ==
    [i \in 1..Cardinality(FieldStarts(text)) |->
        FieldAt(text, CHOOSE p \in FieldStarts(text) :
                          Cardinality({q \in FieldStarts(text) : q < p}) = i - 1)]

\* fields.find(f => f.start >= from), 0 when there is none (1-based index)
RECURSIVE FindFrom(_, _, _)
\* The search that wants a field strictly behind from
FindFrom_Strict(fields, from, i) ==
    IF i > Len(fields) THEN 0
    ELSE IF fields[i].start > from THEN i
    ELSE FindFrom(fields, from, i + 1)

FindFrom(fields, from, i) ==
    IF i > Len(fields) THEN 0
    ELSE IF fields[i].start >= from THEN i
    ELSE FindFrom(fields, from, i + 1)

\* The choice that falls back on the last field instead of wrapping to the
\* first
NextTarget_NoWrap(fields, from) ==
    IF FindFrom(fields, from, 1) = 0 THEN fields[Len(fields)]
    ELSE fields[FindFrom(fields, from, 1)]

\* The field goToNextField selects: the first at or after from, else the first
NextTarget(fields, from) ==
    IF FindFrom(fields, from, 1) = 0 THEN fields[1]
    ELSE fields[FindFrom(fields, from, 1)]

contChars == << ",", "." >>

contWords == << << "w", "i", "t", "h" >>,
               << "i", "n", "c", "l", "u", "d", "i", "n", "g" >>,
               << "i", "n", "c", "l", "u", "d", "e", "s" >>,
               << "a", "n", "d" >>,
               << "o", "r" >>,
               << "t", "o" >>,
               << "o", "f" >>,
               << "t", "h", "e" >>,
               << "a" >>,
               << "a", "n" >> >>

\* The characters /[.,;:!?]+$/ strips
IsPunct(c) == c \in {".", ",", ";", ":", "!", "?"}

\* word.replace(/[.,;:!?]+$/, '')
RECURSIVE StripPunct(_)
StripPunct(s) ==
    IF s = << >> THEN << >>
    ELSE IF IsPunct(s[Len(s)]) THEN StripPunct(SubSeq(s, 1, Len(s) - 1))
    ELSE s

\* The last element of t.split(/\s+/): what follows the last whitespace of t
RECURSIVE LastWordFrom(_, _)
LastWordFrom(t, k) ==
    IF k < 1 THEN t
    ELSE IF IsSpace(t[k]) THEN SubSeq(t, k + 1, Len(t))
    ELSE LastWordFrom(t, k - 1)

LastWord(t) == LastWordFrom(t, Len(t))

\* list.some(w => w.toLowerCase() === word)
SomeLower(list, word) == \E i \in 1..Len(list) : ToLowerCase(list[i]) = word

\* The hold test that looks at the last word only, not at the last character
HoldTrimmed_WordsOnly(t, learnedWords) ==
    \/ SomeLower(contWords, StripPunct(LastWord(ToLowerCase(t))))
    \/ SomeLower(learnedWords, StripPunct(LastWord(ToLowerCase(t))))

\* shouldHoldAdvance on the trimmed, non-empty text t
HoldTrimmed(t, learnedWords) ==
    \/ \E i \in 1..Len(contChars) : contChars[i] = t[Len(t)]
    \/ SomeLower(contWords, StripPunct(LastWord(ToLowerCase(t))))
    \/ SomeLower(learnedWords, StripPunct(LastWord(ToLowerCase(t))))

\* shouldHoldAdvance(text)
shouldHoldAdvance(text, learnedWords) ==
    IF text = << >> THEN TRUE
    ELSE IF Trim(text) = << >> THEN TRUE
    ELSE HoldTrimmed(Trim(text), learnedWords)

\* onFieldInput: whether an auto-advance timer is pending after it ran, given
\* the anchor, whether one was pending, the mode, the buffer and the caret
\* A timer variable and the browser's pending timeouts: live says the
\* timeout the variable names is pending, stray counts the pending timeouts
\* it no longer names
TimerSlot(live, stray) == [live |-> live, stray |-> stray]

\* clearTimeout(id)
ClearTimeout(slot) == [slot EXCEPT !.live = FALSE]

\* id = setTimeout(...): a timeout still pending under the old id is left
\* behind
SetTimeout(slot) ==
    [live |-> TRUE, stray |-> IF slot.live THEN slot.stray + 1 ELSE slot.stray]

\* onFieldInput scheduling the advance without clearing the timer it has
ArmAdvance_NoClear(pending, stray) == SetTimeout(TimerSlot(pending, stray)).stray

\* onFieldInput scheduling the advance: clearTimeout(fieldAdv.timer), then
\* fieldAdv.timer = setTimeout(...); the stray timeouts afterwards
ArmAdvance(pending, stray) ==
    SetTimeout(ClearTimeout(TimerSlot(pending, stray))).stray

\* The input listener scheduling the snapshot: clearTimeout(_snapshotTimer),
\* then _snapshotTimer = setTimeout(...); the stray timeouts afterwards
ArmSnapshot(pending, stray) ==
    SetTimeout(ClearTimeout(TimerSlot(pending, stray))).stray

onFieldInput(a, pending, autoOn, learnedWords, text, cursor) ==
    IF a < 0 THEN pending
    ELSE IF isCursorInField(text, cursor) THEN FALSE
    ELSE IF ~autoOn THEN pending
    ELSE IF Trim(Substring(text, Min(a, Len(text)), cursor)) = << >> THEN FALSE
    ELSE IF shouldHoldAdvance(Trim(Substring(text, Min(a, Len(text)), cursor)),
                              learnedWords) THEN FALSE
    ELSE TRUE

\* The context word the timer callback captures: rawFill trimmed, its last
\* word, that word without trailing punctuation, in lower case (each stage
\* is computed once and handed to the next)
AdvanceContext(a, text, fromPos) ==
    CHOOSE ctx \in
        { ToLowerCase(word) : word \in
            { StripPunct(lastWord) : lastWord \in
                { LastWord(rawFill) : rawFill \in
                    { Trim(Substring(text, Min(a, Len(text)), fromPos)) } } } } : TRUE

\* learnException that starts the list over with the new word
learnException_Forgetting(learnedWords, word) ==
    IF Len(word) < 2 THEN learnedWords
    ELSE IF \E i \in 1..Len(learnedWords) : learnedWords[i] = word THEN learnedWords
    ELSE IF \E i \in 1..Len(contWords) : contWords[i] = word THEN learnedWords
    ELSE IF \E i \in 1..Len(contChars) : << contChars[i] >> = word THEN learnedWords
    ELSE << word >>

\* learnException(word): the learned list after it
learnException(learnedWords, word) ==
    IF Len(word) < 2 THEN learnedWords
    ELSE IF \E i \in 1..Len(learnedWords) : learnedWords[i] = word THEN learnedWords
    ELSE IF \E i \in 1..Len(contWords) : contWords[i] = word THEN learnedWords
    ELSE IF \E i \in 1..Len(contChars) : << contChars[i] >> = word THEN learnedWords
    ELSE Append(learnedWords, word)

\* ------------------------------------------------------------------------
\* State
\* ------------------------------------------------------------------------

VARIABLES
    value,                 \* textarea.value of #dictation
    selectionStart,        \* textarea.selectionStart
    selectionEnd,          \* textarea.selectionEnd
    format,                \* Cassette: _format
    lastAutoInsert,        \* Cassette: lastAutoInsert (NoInsert = null)
    ignoreNext,            \* Cassette: _ignoreNext
    historyTape,           \* App: _historyTape, entries [text, label]
    historyIdx,            \* App: _historyIdx, 0-based, -1 = empty tape
    snapshotTimer,         \* App: _snapshotTimer: "none" or the label it will record
    snapStray,             \* pending snapshot timeouts _snapshotTimer no longer names
    restoringFromHistory,  \* App: _restoringFromHistory
    anchor,                \* App: fieldAdv.anchor, -1 = no field tracked
    advTimer,              \* App: fieldAdv.timer is pending
    advStray,              \* pending advance timeouts fieldAdv.timer no longer names
    auto,                  \* App: fieldAdv.auto
    learned,               \* App: fieldAdv.learned
    lastAdvRecent,         \* App: Date.now() - fieldAdv.lastAdvTime <= 4000
    lastAdvFromPos,        \* App: fieldAdv.lastAdvFromPos
    lastAdvCtx,            \* App: fieldAdv.lastAdvCtx
    watchBack,             \* App: fieldAdv.watchBack
    focused,               \* document.activeElement is the textarea
    selPending,            \* a selectionchange event of setSelectionRange is queued
    last,                  \* observation: the handler that ran last, its result
    gIn,                   \* grammar check: the input (a line's parts, or letters)
    gOut,                  \* grammar check: parseBlockLine / nextLetterSuffix result
    gPrefix,               \* grammar check: nextPrefix result
    gpc                    \* grammar check: position

vars == << value, selectionStart, selectionEnd, format, lastAutoInsert, ignoreNext,
           historyTape, historyIdx, snapshotTimer, snapStray, restoringFromHistory,
           anchor, advTimer, advStray, auto, learned, lastAdvRecent, lastAdvFromPos,
           lastAdvCtx, watchBack, focused, selPending, last,
           gIn, gOut, gPrefix, gpc >>

textVars == << value, selectionStart, selectionEnd >>
engineVars == << format, lastAutoInsert, ignoreNext >>
tapeVars == << historyTape, historyIdx, snapshotTimer, snapStray,
              restoringFromHistory >>
grammarVars == << gIn, gOut, gPrefix, gpc >>
learningVars == << learned, lastAdvRecent, lastAdvFromPos, lastAdvCtx, watchBack >>
fieldVars == << anchor, advTimer, advStray, auto, learningVars, focused,
               selPending >>

\* ------------------------------------------------------------------------
\* Bounds of the model
\* ------------------------------------------------------------------------

\* _MAX_HISTORY is 500 in the source; the model runs the same code with a
\* small cap so that eviction, truncation and their combination are reached.
MAX_HISTORY == 2

\* Longest text handed to diffStats
MaxDiffLen == 3

TypedChars == {"a", "b", "c", NL}

BlockText == << "A", "1", HYPHEN >>

\* The buffer contents a host edit may produce (the engine may extend them)
Texts == { << >>, << "a" >>, << "a", "b" >>, << "a", "c" >>,
           BlockText, Append(BlockText, NL) }

\* What the system clipboard may hold
ClipTexts == {BlockText}

\* grossapp-dictation-draft in localStorage at load: << >> = none
SavedDrafts == {<< >>, << "a" >>}

\* ------------------------------------------------------------------------
\* History tape
\* ------------------------------------------------------------------------

Tape(t, i) == [tape |-> t, idx |-> i]

\* recordSnapshot that keeps the redo branch when it appends
recordSnapshot_KeepsFuture(h, restoring, text, label) ==
    IF restoring THEN h
    ELSE IF h.idx >= 0 /\ h.tape[h.idx + 1].text = text THEN h
    ELSE LET pushed == Append(h.tape, [text |-> text, label |-> label])
             over == IF Len(pushed) > MAX_HISTORY THEN Len(pushed) - MAX_HISTORY
                     ELSE 0
         IN  Tape(SubSeq(pushed, over + 1, Len(pushed)), Len(pushed) - 1 - over)

\* recordSnapshot without the comparison against the current entry
recordSnapshot_NoDedup(h, restoring, text, label) ==
    IF restoring THEN h
    ELSE LET kept == IF h.idx < Len(h.tape) - 1
                     THEN SubSeq(h.tape, 1, h.idx + 1)
                     ELSE h.tape
             pushed == Append(kept, [text |-> text, label |-> label])
             over == IF Len(pushed) > MAX_HISTORY THEN Len(pushed) - MAX_HISTORY
                     ELSE 0
         IN  Tape(SubSeq(pushed, over + 1, Len(pushed)), Len(pushed) - 1 - over)

\* recordSnapshot without the loop that evicts the oldest entries
recordSnapshot_NoCap(h, restoring, text, label) ==
    IF restoring THEN h
    ELSE IF h.idx >= 0 /\ h.tape[h.idx + 1].text = text THEN h
    ELSE LET kept == IF h.idx < Len(h.tape) - 1
                     THEN SubSeq(h.tape, 1, h.idx + 1)
                     ELSE h.tape
             pushed == Append(kept, [text |-> text, label |-> label])
         IN  Tape(pushed, Len(pushed) - 1)

\* recordSnapshot whose dedup test looks at the newest entry instead of the
\* entry the index stands on
recordSnapshot_DedupAgainstEnd(h, restoring, text, label) ==
    IF restoring THEN h
    ELSE IF h.idx >= 0 /\ h.tape[Len(h.tape)].text = text THEN h
    ELSE LET kept == IF h.idx < Len(h.tape) - 1
                     THEN SubSeq(h.tape, 1, h.idx + 1)
                     ELSE h.tape
             pushed == Append(kept, [text |-> text, label |-> label])
             over == IF Len(pushed) > MAX_HISTORY THEN Len(pushed) - MAX_HISTORY
                     ELSE 0
         IN  Tape(SubSeq(pushed, over + 1, Len(pushed)), Len(pushed) - 1 - over)

\* recordSnapshot(label) on tape h with the buffer holding text
recordSnapshot(h, restoring, text, label) ==
    IF restoring THEN h
    ELSE IF h.idx >= 0 /\ h.tape[h.idx + 1].text = text THEN h
    ELSE LET kept == IF h.idx < Len(h.tape) - 1
                     THEN SubSeq(h.tape, 1, h.idx + 1)
                     ELSE h.tape
             pushed == Append(kept, [text |-> text, label |-> label])
             over == IF Len(pushed) > MAX_HISTORY THEN Len(pushed) - MAX_HISTORY
                     ELSE 0
         IN  Tape(SubSeq(pushed, over + 1, Len(pushed)), Len(pushed) - 1 - over)

\* The first loop of diffStats: s advanced over the common prefix
RECURSIVE DiffPrefix(_, _, _)
DiffPrefix(oldText, newText, s) ==
    IF s < Len(oldText) /\ s < Len(newText) /\ oldText[s + 1] = newText[s + 1]
    THEN DiffPrefix(oldText, newText, s + 1)
    ELSE s

\* The second loop of diffStats: oe and ne moved back over the common suffix
\* of what the first loop left
RECURSIVE DiffSuffix(_, _, _, _, _)
DiffSuffix(oldText, newText, s, oe, ne) ==
    IF oe > s /\ ne > s /\ oldText[oe] = newText[ne]
    THEN DiffSuffix(oldText, newText, s, oe - 1, ne - 1)
    ELSE [oe |-> oe, ne |-> ne]

\* diffStats whose second loop may run back into the common prefix
diffStats_Overlapping(oldText, newText) ==
    LET ends == DiffSuffix(oldText, newText, 0, Len(oldText), Len(newText))
    IN  [added |-> ends.ne - DiffPrefix(oldText, newText, 0),
         removed |-> ends.oe - DiffPrefix(oldText, newText, 0)]

\* diffStats(oldText, newText)
diffStats(oldText, newText) ==
    LET ends == DiffSuffix(oldText, newText, DiffPrefix(oldText, newText, 0),
                           Len(oldText), Len(newText))
    IN  [added |-> ends.ne - DiffPrefix(oldText, newText, 0),
         removed |-> ends.oe - DiffPrefix(oldText, newText, 0)]

\* restoreHistoryState that dispatches an input event after replacing the
\* buffer, inside the _restoringFromHistory window: Cassette.onInput runs
restoreHistoryState_Dispatching(snap) ==
    LET e1 == onInput(Engine(snap.text, Len(snap.text), Len(snap.text),
                             ignoreNext, lastAutoInsert, NoAdvance), format)
    IN  /\ value' = e1.value
        /\ selectionStart' = e1.selectionStart
        /\ selectionEnd' = e1.selectionEnd
        /\ ignoreNext' = e1.ignoreNext
        /\ lastAutoInsert' = e1.lastAutoInsert
        /\ restoringFromHistory' = FALSE
        /\ UNCHANGED << format, snapshotTimer, snapStray >>

\* restoreHistoryState(snap): a direct replace of the buffer, caret at the end;
\* no input event is dispatched, so no listener runs.
restoreHistoryState(snap) ==
    /\ value' = snap.text
    /\ selectionStart' = Len(snap.text)
    /\ selectionEnd' = Len(snap.text)
    /\ restoringFromHistory' = FALSE
    /\ UNCHANGED << engineVars, snapshotTimer, snapStray >>

\* What the handler op, called with arg, returned, and where the tape stood
\* when it was called
Did(op, arg, ret) ==
    [op |-> op, arg |-> arg, ret |-> ret,
     idx |-> historyIdx, len |-> Len(historyTape), adv |-> << >>,
     inputType |-> "none", sel |-> << >>, moved |-> last.moved]

\* undoAction that steps back without first recording the unsaved buffer
undoAction_NoPreUndo ==
    /\ IF historyIdx <= 0
       THEN /\ last' = Did("undo", -1, "false")
            /\ UNCHANGED << textVars, engineVars, tapeVars >>
       ELSE /\ historyIdx' = historyIdx - 1
            /\ restoreHistoryState(historyTape[historyIdx])
            /\ last' = Did("undo", -1, "true")
            /\ UNCHANGED historyTape
    /\ UNCHANGED << grammarVars, fieldVars >>
\* restoreHistoryEntry that checks only the lower bound: idx is assigned and
\* restoreHistoryState(undefined) throws after raising the guard
restoreHistoryEntry_NoUpperCheck(i) ==
    /\ IF i < 0
       THEN /\ last' = Did("restore", i, "ignored")
            /\ UNCHANGED << textVars, engineVars, tapeVars >>
       ELSE IF i >= Len(historyTape)
       THEN /\ historyIdx' = i
            /\ restoringFromHistory' = TRUE
            /\ last' = Did("restore", i, "ignored")
            /\ UNCHANGED << textVars, engineVars, historyTape, snapshotTimer, snapStray >>
       ELSE /\ historyIdx' = i
            /\ restoreHistoryState(historyTape[i + 1])
            /\ last' = Did("restore", i, "restored")
            /\ UNCHANGED historyTape
    /\ UNCHANGED << grammarVars, fieldVars >>


undoAction ==
    LET cur == value
        h0 == Tape(historyTape, historyIdx)
        h1 == IF historyIdx < 0 \/ cur # historyTape[historyIdx + 1].text
              THEN recordSnapshot(h0, restoringFromHistory, cur, "pre-undo")
              ELSE h0
    IN  /\ historyTape' = h1.tape
        /\ IF h1.idx <= 0
           THEN /\ historyIdx' = h1.idx
                /\ last' = Did("undo", -1, "false")
                /\ UNCHANGED << textVars, engineVars, snapshotTimer, snapStray,
                                restoringFromHistory >>
           ELSE /\ historyIdx' = h1.idx - 1
                /\ restoreHistoryState(h1.tape[h1.idx])
                /\ last' = Did("undo", -1, "true")
        /\ UNCHANGED << grammarVars, fieldVars >>

redoAction ==
    /\ IF historyIdx >= Len(historyTape) - 1
       THEN /\ last' = Did("redo", -1, "false")
            /\ UNCHANGED << textVars, engineVars, tapeVars >>
       ELSE /\ historyIdx' = historyIdx + 1
            /\ restoreHistoryState(historyTape[historyIdx + 2])
            /\ last' = Did("redo", -1, "true")
            /\ UNCHANGED historyTape
    /\ UNCHANGED << grammarVars, fieldVars >>

restoreHistoryEntry(i) ==
    /\ IF i < 0 \/ i >= Len(historyTape)
       THEN /\ last' = Did("restore", i, "ignored")
            /\ UNCHANGED << textVars, engineVars, tapeVars >>
       ELSE /\ historyIdx' = i
            /\ restoreHistoryState(historyTape[i + 1])
            /\ last' = Did("restore", i, "restored")
            /\ UNCHANGED historyTape
    /\ UNCHANGED << grammarVars, fieldVars >>

\* The idle / paste snapshot timer fires: () => recordSnapshot(label)
SnapshotTimerFire ==
    /\ snapshotTimer # "none"
    /\ LET h == recordSnapshot(Tape(historyTape, historyIdx), restoringFromHistory,
                               value, snapshotTimer)
       IN  /\ historyTape' = h.tape
           /\ historyIdx' = h.idx
    /\ snapshotTimer' = "none"
    /\ snapStray' = snapStray
    /\ last' = Did("snapshotTimer", -1, "void")
    /\ UNCHANGED << textVars, engineVars, restoringFromHistory, grammarVars, fieldVars >>

\* ------------------------------------------------------------------------
\* Host edits: beforeinput, the native edit, then the input listeners in the
\* order they were registered (Cassette.onInput, then the App listener)
\* ------------------------------------------------------------------------

\* The beforeinput listener: a word-boundary snapshot of the text before the edit
BeforeInput(h, inputType, data) ==
    IF inputType = "insertText" /\ data \in {SPACE, NL}
    THEN recordSnapshot(h, restoringFromHistory, value, "word")
    ELSE IF inputType \in {"insertLineBreak", "insertParagraph"}
    THEN recordSnapshot(h, restoringFromHistory, value, "word")
    ELSE h

\* The cassette:advance listener of App, as far as the tape is concerned:
\* clearTimeout(_snapshotTimer); recordSnapshot('block')
OnAdvance(h, text) == recordSnapshot(h, restoringFromHistory, text, "block")

\* The listeners with a cassette:advance listener that records the block
\* snapshot but leaves fieldAdv alone
Delivered_AdvanceKeepsField(h, e1, inputType, op) ==
    /\ value' = e1.value
    /\ selectionStart' = e1.selectionStart
    /\ selectionEnd' = e1.selectionEnd
    /\ ignoreNext' = e1.ignoreNext
    /\ lastAutoInsert' = e1.lastAutoInsert
    /\ LET h1 == IF e1.advance.ok THEN OnAdvance(h, e1.value) ELSE h
       IN  historyTape' = h1.tape /\ historyIdx' = h1.idx
    /\ snapshotTimer' =
          IF restoringFromHistory THEN
              (IF e1.advance.ok THEN "none" ELSE snapshotTimer)
          ELSE IF inputType \in {"insertFromPaste", "insertFromDrop"} THEN "paste"
          ELSE "typed"
    /\ snapStray' =
          IF restoringFromHistory THEN snapStray
          ELSE ArmSnapshot(~e1.advance.ok /\ snapshotTimer # "none", snapStray)
    /\ anchor' = anchor
    /\ advTimer' = onFieldInput(anchor, advTimer, auto, learned, e1.value,
                                e1.selectionEnd)
    /\ advStray' =
          IF onFieldInput(anchor, FALSE, auto, learned, e1.value, e1.selectionEnd)
          THEN ArmAdvance(advTimer, advStray)
          ELSE advStray
    /\ last' = [Did(op, -1, IF e1.advance.ok THEN "advance" ELSE "void")
                   EXCEPT !.adv = IF e1.advance.ok THEN << e1.advance >> ELSE << >>,
                          !.inputType = inputType]
    /\ UNCHANGED << format, restoringFromHistory, grammarVars, auto, learningVars,
                    focused, selPending >>

\* The state after both listeners ran: e1 is what Cassette.onInput left, the
\* App listeners record the advance and arm the snapshot timer
Delivered(h, e1, inputType, op) ==
    /\ value' = e1.value
    /\ selectionStart' = e1.selectionStart
    /\ selectionEnd' = e1.selectionEnd
    /\ ignoreNext' = e1.ignoreNext
    /\ lastAutoInsert' = e1.lastAutoInsert
    /\ LET h1 == IF e1.advance.ok THEN OnAdvance(h, e1.value) ELSE h
       IN  historyTape' = h1.tape /\ historyIdx' = h1.idx
    /\ snapshotTimer' =
          IF restoringFromHistory THEN
              (IF e1.advance.ok THEN "none" ELSE snapshotTimer)
          ELSE IF inputType \in {"insertFromPaste", "insertFromDrop"} THEN "paste"
          ELSE "typed"
    /\ snapStray' =
          IF restoringFromHistory THEN snapStray
          ELSE ArmSnapshot(~e1.advance.ok /\ snapshotTimer # "none", snapStray)
    /\ anchor' = IF e1.advance.ok THEN -1 ELSE anchor
    /\ advTimer' = onFieldInput(IF e1.advance.ok THEN -1 ELSE anchor,
                                IF e1.advance.ok THEN FALSE ELSE advTimer,
                                auto, learned, e1.value, e1.selectionEnd)
    /\ advStray' =
          IF onFieldInput(IF e1.advance.ok THEN -1 ELSE anchor, FALSE,
                          auto, learned, e1.value, e1.selectionEnd)
          THEN ArmAdvance(~e1.advance.ok /\ advTimer, advStray)
          ELSE advStray
    /\ last' = [Did(op, -1, IF e1.advance.ok THEN "advance" ELSE "void")
                   EXCEPT !.adv = IF e1.advance.ok THEN << e1.advance >> ELSE << >>,
                          !.inputType = inputType]
    /\ UNCHANGED << format, restoringFromHistory, grammarVars, auto, learningVars,
                    focused, selPending >>

\* One input event delivered to both listeners after the native edit left the
\* buffer holding text with the caret at pos.
DeliverInput(h, text, pos, inputType, op) ==
    Delivered(h, onInput(Engine(text, pos, pos, ignoreNext, lastAutoInsert, NoAdvance),
                         format),
              inputType, op)

\* The user types the character c over the selection
TypeChar(c) ==
    LET text == Substring(value, 0, selectionStart) \o << c >>
                \o SubstringFrom(value, selectionEnd)
        inputType == IF c = NL THEN "insertLineBreak" ELSE "insertText"
        h == BeforeInput(Tape(historyTape, historyIdx), inputType, c)
    IN  /\ text \in Texts
        /\ DeliverInput(h, text, selectionStart + 1, inputType, "type")

\* Backspace: removes the selection, or the character before the caret
DeleteBackward ==
    LET from == IF selectionStart = selectionEnd THEN selectionStart - 1
                ELSE selectionStart
        text == Substring(value, 0, from) \o SubstringFrom(value, selectionEnd)
    IN  /\ from >= 0
        /\ text \in Texts
        /\ DeliverInput(Tape(historyTape, historyIdx), text, from,
                        "deleteContentBackward", "delete")

\* The user pastes the clipboard text t over the selection
Paste(t) ==
    LET text == Substring(value, 0, selectionStart) \o t
                \o SubstringFrom(value, selectionEnd)
    IN  /\ text \in Texts
        /\ DeliverInput(Tape(historyTape, historyIdx), text,
                        selectionStart + Len(t), "insertFromPaste", "paste")

\* TypeChar with the texts the edit may produce given as docs
TypeIn(c, docs) ==
    /\ (Substring(value, 0, selectionStart) \o << c >>
            \o SubstringFrom(value, selectionEnd)) \in docs
    /\ DeliverInput(BeforeInput(Tape(historyTape, historyIdx),
                                IF c = NL THEN "insertLineBreak" ELSE "insertText", c),
                    Substring(value, 0, selectionStart) \o << c >>
                        \o SubstringFrom(value, selectionEnd),
                    selectionStart + 1,
                    IF c = NL THEN "insertLineBreak" ELSE "insertText", "type")

\* Backspace on a collapsed caret: one input event of type
\* deleteContentBackward after the character before the caret went
Backspace ==
    /\ selectionStart = selectionEnd
    /\ selectionStart > 0
    /\ DeliverInput(Tape(historyTape, historyIdx),
                    Substring(value, 0, selectionStart - 1)
                        \o SubstringFrom(value, selectionEnd),
                    selectionStart - 1, "deleteContentBackward", "delete")

\* ------------------------------------------------------------------------
\* Selection changes: the selectionchange listeners in the order they were
\* registered (Cassette's autoFillPlaceholderIfSelected, then App's)
\* ------------------------------------------------------------------------

NoFill == [ok |-> FALSE]

\* autoFillPlaceholderIfSelected from the block search on: what it will put
\* in, and where
\* The plan whose label takes the separator of the block line instead of the
\* placeholder's
FillPlanWith_BlockSeparator(lineStart, m, result, fmt) ==
    IF ~result.ok THEN NoFill
    ELSE [ok |-> TRUE, lineStart |-> lineStart, matchLength |-> Len(m.all),
          parsed |-> result.parsed,
          prefix |-> nextPrefix(result.parsed, << >>, fmt)]
FillPlanWith(lineStart, m, result, fmt) ==
    IF ~result.ok THEN NoFill
    ELSE [ok |-> TRUE, lineStart |-> lineStart, matchLength |-> Len(m.all),
          parsed |-> result.parsed,
          prefix |-> nextPrefix(result.parsed, m.g2, fmt)]

\* autoFillPlaceholderIfSelected from the match m of the line on
FillPlanOn(text, lineStart, m, fmt) ==
    IF ~m.ok THEN NoFill
    ELSE IF text[lineStart + 1] # "[" THEN NoFill
    ELSE FillPlanWith(lineStart, m, findLastBlock(text, lineStart, fmt), fmt)

\* autoFillPlaceholderIfSelected up to the replacement: NoFill on every early
\* return
FillPlan(text, start, end, fmt) ==
    IF start = end THEN NoFill
    ELSE IF start >= Len(text) THEN NoFill
    ELSE IF text[start + 1] # "[" \/ text[end] # "]" THEN NoFill
    ELSE FillPlanOn(text, LineStartOf(text, start),
                    PLACEHOLDER_LINE_PATTERN(LineAt(text, start)), fmt)

\* replacePlaceholderWithBlock: the buffer after the splice
Replaced(text, plan) ==
    Substring(text, 0, plan.lineStart) \o plan.prefix
        \o SubstringFrom(text, plan.lineStart + plan.matchLength)

\* checkCursorBack with the selection start at start: the learned list and
\* the watch flag after it
checkCursorBack(start) ==
    IF ~watchBack THEN [learned |-> learned, watchBack |-> FALSE]
    ELSE IF ~lastAdvRecent THEN [learned |-> learned, watchBack |-> FALSE]
    ELSE IF ~focused THEN [learned |-> learned, watchBack |-> TRUE]
    ELSE IF start < lastAdvFromPos - 3
    THEN [learned |-> learnException(learned, lastAdvCtx), watchBack |-> FALSE]
    ELSE [learned |-> learned, watchBack |-> TRUE]

\* The advance notifications a fill emits: one of the nested listener run, if
\* that made an insertion, then its own
FillAdvances(plan, e1) ==
    (IF e1.advance.ok THEN << e1.advance >> ELSE << >>)
        \o << AdvanceDetail(plan.parsed, plan.prefix, FALSE, TRUE, format) >>

\* The selection-driven fill: _ignoreNext is raised, replacePlaceholderWithBlock
\* splices and dispatches an input event, whose listeners run before it
\* returns (e1 is what Cassette.onInput left; App's listener arms the idle
\* snapshot and runs onFieldInput); then lastAutoInsert is set and
\* cassette:advance dispatched, whose listener records the block snapshot,
\* drops the anchor and clears both timers; App's selectionchange listener
\* runs last
Filled(s, e, plan, e1) ==
    /\ value' = e1.value
    /\ selectionStart' = e1.selectionStart
    /\ selectionEnd' = e1.selectionEnd
    /\ ignoreNext' = e1.ignoreNext
    /\ lastAutoInsert' = [ok |-> TRUE, inserted |-> plan.prefix,
                          length |-> Len(plan.prefix), wasPlaceholder |-> TRUE]
    /\ LET h0 == Tape(historyTape, historyIdx)
           h1 == IF e1.advance.ok THEN OnAdvance(h0, e1.value) ELSE h0
           h2 == OnAdvance(h1, e1.value)
       IN  historyTape' = h2.tape /\ historyIdx' = h2.idx
    /\ snapshotTimer' = "none"
    /\ snapStray' =
          IF restoringFromHistory THEN snapStray
          ELSE ArmSnapshot(snapshotTimer # "none", snapStray)
    /\ anchor' = -1
    /\ advTimer' = FALSE
    /\ advStray' =
          IF onFieldInput(anchor, FALSE, auto, learned, e1.value, e1.selectionEnd)
          THEN ArmAdvance(advTimer, advStray)
          ELSE advStray
    /\ learned' = checkCursorBack(e1.selectionStart).learned
    /\ watchBack' = checkCursorBack(e1.selectionStart).watchBack
    /\ last' = [Did("select", -1, "filled") EXCEPT !.adv = FillAdvances(plan, e1),
                                                   !.sel = << s, e >>]
    /\ selPending' = FALSE
    /\ UNCHANGED << format, restoringFromHistory, auto, lastAdvRecent,
                    lastAdvFromPos, lastAdvCtx, focused, grammarVars >>

\* A selection change that fills nothing: only App's listener has an effect
NotFilled(s, e) ==
    /\ selectionStart' = s
    /\ selectionEnd' = e
    /\ learned' = checkCursorBack(s).learned
    /\ watchBack' = checkCursorBack(s).watchBack
    /\ advTimer' = IF focused /\ isCursorInField(value, s) THEN FALSE ELSE advTimer
    /\ advStray' = advStray
    /\ last' = [Did("select", -1, "void") EXCEPT !.sel = << s, e >>]
    /\ selPending' = FALSE
    /\ UNCHANGED << value, engineVars, tapeVars, anchor, auto, lastAdvRecent,
                    lastAdvFromPos, lastAdvCtx, focused, grammarVars >>

\* The listeners with an input listener that does not hold back on the
\* engine's own splice and advances from the line it just labelled
Selected_Reentrant(s, e, plan) ==
    IF plan.ok
    THEN Filled(s, e, plan, tryAutoAdvance(Engine(Replaced(value, plan),
                                                  plan.lineStart + Len(plan.prefix),
                                                  plan.lineStart + Len(plan.prefix),
                                                  FALSE, lastAutoInsert, NoAdvance),
                                           format))
    ELSE NotFilled(s, e)

\* The selectionchange listeners once autoFillPlaceholderIfSelected has
\* decided
Selected(s, e, plan) ==
    IF plan.ok
    THEN Filled(s, e, plan, onInput(Engine(Replaced(value, plan),
                                           plan.lineStart + Len(plan.prefix),
                                           plan.lineStart + Len(plan.prefix),
                                           TRUE, lastAutoInsert, NoAdvance), format))
    ELSE NotFilled(s, e)

\* The selection of the focused textarea becomes [s, e): by the pointer, the
\* keyboard, or the dictation host's "next field"
SelectionChange(s, e) ==
    /\ focused
    /\ 0 <= s /\ s <= e /\ e <= Len(value)
    /\ << s, e >> # << selectionStart, selectionEnd >>
    /\ Selected(s, e, FillPlan(value, s, e, format))

\* ------------------------------------------------------------------------
\* Cassette.handleUndo: takes the last automatic insertion back
\* ------------------------------------------------------------------------

\* handleUndo that leaves the record of the insertion in place
handleUndo_KeepsRecord ==
    /\ IF ~lastAutoInsert.ok
       THEN /\ last' = Did("handleUndo", -1, "false")
            /\ UNCHANGED << textVars, engineVars >>
       ELSE IF selectionStart - lastAutoInsert.length < 0
       THEN /\ last' = Did("handleUndo", -1, "false")
            /\ UNCHANGED << textVars, engineVars >>
       ELSE IF Substring(value, selectionStart - lastAutoInsert.length, selectionStart)
                   = lastAutoInsert.inserted
       THEN /\ value' = Substring(value, 0, selectionStart - lastAutoInsert.length)
                            \o SubstringFrom(value, selectionStart)
            /\ selectionStart' = selectionStart - lastAutoInsert.length
            /\ selectionEnd' = selectionStart - lastAutoInsert.length
            /\ lastAutoInsert' = lastAutoInsert
            /\ last' = Did("handleUndo", -1, "true")
            /\ UNCHANGED << format, ignoreNext >>
       ELSE /\ last' = Did("handleUndo", -1, "false")
            /\ UNCHANGED << textVars, engineVars >>
    /\ UNCHANGED << tapeVars, fieldVars, grammarVars >>

handleUndo ==
    /\ IF ~lastAutoInsert.ok
       THEN /\ last' = Did("handleUndo", -1, "false")
            /\ UNCHANGED << textVars, engineVars >>
       ELSE IF selectionStart - lastAutoInsert.length < 0
       THEN /\ last' = Did("handleUndo", -1, "false")
            /\ UNCHANGED << textVars, engineVars >>
       ELSE IF Substring(value, selectionStart - lastAutoInsert.length, selectionStart)
                   = lastAutoInsert.inserted
       THEN /\ value' = Substring(value, 0, selectionStart - lastAutoInsert.length)
                            \o SubstringFrom(value, selectionStart)
            /\ selectionStart' = selectionStart - lastAutoInsert.length
            /\ selectionEnd' = selectionStart - lastAutoInsert.length
            /\ lastAutoInsert' = NoInsert
            /\ last' = Did("handleUndo", -1, "true")
            /\ UNCHANGED << format, ignoreNext >>
       ELSE /\ last' = Did("handleUndo", -1, "false")
            /\ UNCHANGED << textVars, engineVars >>
    /\ UNCHANGED << tapeVars, fieldVars, grammarVars >>

\* ------------------------------------------------------------------------
\* Manual operations: the new-block button, Cassette.handleNewSpecimen
\* ------------------------------------------------------------------------

\* The positions getPlaceholderOnCurrentLine looks at: _savedSelection when
\* it is not null (saved = -1 stands for null), then the selection's ends
PlaceholderPositions(saved, ss, se) ==
    (IF saved # -1 THEN << saved >> ELSE << >>) \o << ss, se >>

\* getPlaceholderOnCurrentLine: the first position whose line is a
\* placeholder line decides
getPlaceholderOnCurrentLine(text, saved, ss, se) ==
    LET positions == PlaceholderPositions(saved, ss, se)
        hits == { i \in 1..Len(positions) :
                      PLACEHOLDER_LINE_PATTERN(LineAt(text, positions[i])).ok }
    IN  IF hits = {} THEN [ok |-> FALSE]
        ELSE LET pos == positions[CHOOSE i \in hits : \A j \in hits : i <= j]
             IN  [ok |-> TRUE, lineStart |-> LineStartOf(text, pos),
                  m |-> PLACEHOLDER_LINE_PATTERN(LineAt(text, pos))]

\* insertAtCursor: the engine record after text t replaced the selection;
\* _ignoreNext was raised before it and lastAutoInsert is set after it
insertAtCursor(e, t) ==
    Engine(Substring(e.value, 0, e.selectionStart) \o t
               \o SubstringFrom(e.value, e.selectionEnd),
           e.selectionStart + Len(t), e.selectionStart + Len(t),
           TRUE,
           [ok |-> TRUE, inserted |-> t, length |-> Len(t), wasPlaceholder |-> FALSE],
           NoAdvance)

\* handleNewBlock without a placeholder on the caret's line, once
\* findLastBlock has returned result: a new line with the next label
AppendBlock(e, result, fmt) ==
    IF ~result.ok THEN e
    ELSE insertAtCursor(e, << NL >> \o nextPrefix(result.parsed, << >>, fmt))

\* handleNewSpecimen that starts the first specimen when there is no block
AppendSpecimen_FromNothing(e, result, fmt) ==
    IF ~result.ok THEN insertAtCursor(e, << NL, "A", "1", HYPHEN >>)
    ELSE insertAtCursor(e, << NL >> \o nextSpecimenPrefix(result.parsed, << >>, fmt))

\* handleNewSpecimen once findLastBlock has returned result
AppendSpecimen(e, result, fmt) ==
    IF ~result.ok THEN e
    ELSE insertAtCursor(e, << NL >> \o nextSpecimenPrefix(result.parsed, << >>, fmt))

\* App.newBlock when handleNewBlock filled the placeholder of plan:
\* _ignoreNext is raised, replacePlaceholderWithBlock splices and dispatches
\* an input event whose listeners run before it returns (e1 is what
\* Cassette.onInput left; App's listener arms the idle snapshot and runs
\* onFieldInput); then lastAutoInsert is set and cassette:advance dispatched,
\* whose listener records the block snapshot, drops the anchor and clears
\* both timers
BlockFilled(plan, e1) ==
    /\ value' = e1.value
    /\ selectionStart' = e1.selectionStart
    /\ selectionEnd' = e1.selectionEnd
    /\ ignoreNext' = e1.ignoreNext
    /\ lastAutoInsert' = [ok |-> TRUE, inserted |-> plan.prefix,
                          length |-> Len(plan.prefix), wasPlaceholder |-> TRUE]
    /\ LET h0 == Tape(historyTape, historyIdx)
           h1 == IF e1.advance.ok THEN OnAdvance(h0, e1.value) ELSE h0
           h2 == OnAdvance(h1, e1.value)
       IN  historyTape' = h2.tape /\ historyIdx' = h2.idx
    /\ snapshotTimer' = "none"
    /\ snapStray' =
          IF restoringFromHistory THEN snapStray
          ELSE ArmSnapshot(snapshotTimer # "none", snapStray)
    /\ anchor' = -1
    /\ advTimer' = FALSE
    /\ advStray' =
          IF onFieldInput(anchor, FALSE, auto, learned, e1.value, e1.selectionEnd)
          THEN ArmAdvance(advTimer, advStray)
          ELSE advStray
    /\ focused' = TRUE
    /\ last' = [Did("newBlock", -1, "true")
                   EXCEPT !.adv = FillAdvances(plan, e1),
                          !.sel = << selectionStart, selectionEnd >>]
    /\ UNCHANGED << format, restoringFromHistory, auto, learningVars, selPending,
                    grammarVars >>

\* App.newBlock when handleNewBlock appended a line (e1 differs from the
\* record before) or returned false (e1 is the record before): no event is
\* dispatched; newBlock drops the anchor and clears the advance timer
BlockAppended(e0, e1) ==
    /\ value' = e1.value
    /\ selectionStart' = e1.selectionStart
    /\ selectionEnd' = e1.selectionEnd
    /\ ignoreNext' = e1.ignoreNext
    /\ lastAutoInsert' = e1.lastAutoInsert
    /\ anchor' = -1
    /\ advTimer' = FALSE
    /\ focused' = IF e1 # e0 THEN TRUE ELSE focused
    /\ last' = [Did("newBlock", -1, IF e1 # e0 THEN "true" ELSE "false")
                   EXCEPT !.sel = << e0.selectionStart, e0.selectionEnd >>]
    /\ UNCHANGED << format, tapeVars, advStray, auto, learningVars, selPending,
                    grammarVars >>

\* App.newBlock from the decision of getPlaceholderOnCurrentLine on
NewBlockOn(ph, e0) ==
    IF ph.ok
    THEN LET plan == FillPlanWith(ph.lineStart, ph.m,
                                  findLastBlock(value, ph.lineStart, format), format)
         IN  IF plan.ok
             THEN BlockFilled(plan,
                              onInput(Engine(Replaced(value, plan),
                                             plan.lineStart + Len(plan.prefix),
                                             plan.lineStart + Len(plan.prefix),
                                             TRUE, lastAutoInsert, NoAdvance), format))
             ELSE BlockAppended(e0, e0)
    ELSE BlockAppended(e0, AppendBlock(e0, findLastBlock(value, selectionStart, format),
                                       format))

\* The new-block button: App.newBlock; saved is _savedSelection
newBlock(saved) ==
    NewBlockOn(getPlaceholderOnCurrentLine(value, saved, selectionStart, selectionEnd),
               Engine(value, selectionStart, selectionEnd, ignoreNext, lastAutoInsert,
                      NoAdvance))

\* Cassette.handleNewSpecimen from the engine record e0 on
NewSpecimenOn(e0, e1) ==
    /\ value' = e1.value
    /\ selectionStart' = e1.selectionStart
    /\ selectionEnd' = e1.selectionEnd
    /\ ignoreNext' = e1.ignoreNext
    /\ lastAutoInsert' = e1.lastAutoInsert
    /\ focused' = IF e1 # e0 THEN TRUE ELSE focused
    /\ last' = [Did("handleNewSpecimen", -1, IF e1 # e0 THEN "true" ELSE "false")
                   EXCEPT !.sel = << e0.selectionStart, e0.selectionEnd >>]
    /\ UNCHANGED << format, tapeVars, anchor, advTimer, advStray, auto, learningVars,
                    selPending, grammarVars >>

\* Cassette.handleNewSpecimen: a new line with the first label of the next
\* specimen
handleNewSpecimen ==
    LET e0 == Engine(value, selectionStart, selectionEnd, ignoreNext, lastAutoInsert,
                     NoAdvance)
    IN  NewSpecimenOn(e0, AppendSpecimen(e0, findLastBlock(value, selectionStart, format),
                                         format))

\* ------------------------------------------------------------------------
\* Buffer cleared: the new-case and next-specimen buttons
\* ------------------------------------------------------------------------

\* clearAll / newSpecimen that record the empty buffer on the tape as it is
ResetBuffer_KeepsTape(op, label) ==
    /\ value' = << >>
    /\ selectionStart' = 0
    /\ selectionEnd' = 0
    /\ LET h == recordSnapshot(Tape(historyTape, historyIdx), restoringFromHistory,
                               << >>, label)
       IN  historyTape' = h.tape /\ historyIdx' = h.idx
    /\ snapshotTimer' = "none"
    /\ anchor' = -1
    /\ watchBack' = FALSE
    /\ advTimer' = FALSE
    /\ last' = Did(op, -1, "cleared")
    /\ UNCHANGED << engineVars, snapStray, restoringFromHistory, advStray, auto,
                    learned, lastAdvRecent, lastAdvFromPos, lastAdvCtx, focused,
                    selPending, grammarVars >>

\* clearAll and newSpecimen past the confirm dialog: the buffer is emptied,
\* the tape emptied, both timers cleared, field tracking reset, and the
\* empty buffer recorded under label
ResetBuffer(op, label) ==
    /\ value' = << >>
    /\ selectionStart' = 0
    /\ selectionEnd' = 0
    /\ LET h == recordSnapshot(Tape(<< >>, -1), restoringFromHistory, << >>, label)
       IN  historyTape' = h.tape /\ historyIdx' = h.idx
    /\ snapshotTimer' = "none"
    /\ anchor' = -1
    /\ watchBack' = FALSE
    /\ advTimer' = FALSE
    /\ last' = Did(op, -1, "cleared")
    /\ UNCHANGED << engineVars, snapStray, restoringFromHistory, advStray, auto,
                    learned, lastAdvRecent, lastAdvFromPos, lastAdvCtx, focused,
                    selPending, grammarVars >>

\* The confirm dialog was dismissed: nothing happens
ResetDeclined(op) ==
    /\ last' = Did(op, -1, "declined")
    /\ UNCHANGED << textVars, engineVars, tapeVars, fieldVars, grammarVars >>

\* App.clearAll; confirmed is the answer to confirm(), asked only when the
\* buffer is not empty
clearAll(confirmed) ==
    IF value # << >> /\ ~confirmed THEN ResetDeclined("clearAll")
    ELSE ResetBuffer("clearAll", "new case")

\* App.newSpecimen; confirmed as in clearAll
newSpecimen(confirmed) ==
    IF value # << >> /\ ~confirmed THEN ResetDeclined("newSpecimen")
    ELSE ResetBuffer("newSpecimen", "new specimen")

\* ------------------------------------------------------------------------
\* Specification of the editor: buffer, engine listener and history tape
\* ------------------------------------------------------------------------

GrammarIdle ==
    /\ gIn = [kind |-> "none"]
    /\ gOut = NULL
    /\ gPrefix = << >>
    /\ gpc = "idle"

\* fieldAdv as declared, before loadFieldPrefs
FieldIdle ==
    /\ anchor = -1
    /\ advTimer = FALSE
    /\ advStray = 0
    /\ auto = FALSE
    /\ learned = << >>
    /\ lastAdvRecent = FALSE
    /\ lastAdvFromPos = -1
    /\ lastAdvCtx = << >>
    /\ watchBack = FALSE
    /\ focused = TRUE
    /\ selPending = FALSE

\* App.init: an empty tape, seeded with the saved draft when there is one
Init ==
    /\ \E draft \in SavedDrafts :
          /\ value = draft
          /\ LET h == IF draft # << >>
                      THEN recordSnapshot(Tape(<< >>, -1), FALSE, draft, "draft")
                      ELSE Tape(<< >>, -1)
             IN  historyTape = h.tape /\ historyIdx = h.idx
    /\ selectionStart = 0
    /\ selectionEnd = 0
    /\ format = FORMAT_LN
    /\ lastAutoInsert = NoInsert
    /\ ignoreNext = FALSE
    /\ snapshotTimer = "none"
    /\ snapStray = 0
    /\ restoringFromHistory = FALSE
    /\ last = [op |-> "init", arg |-> -1, ret |-> "void", idx |-> -1, len |-> 0,
               adv |-> << >>, inputType |-> "none", sel |-> << >>,
               moved |-> FALSE]
    /\ FieldIdle
    /\ GrammarIdle

Next ==
    \/ \E c \in TypedChars : TypeChar(c)
    \/ DeleteBackward
    \/ \E t \in ClipTexts : Paste(t)
    \/ SnapshotTimerFire
    \/ undoAction
    \/ redoAction
    \/ \E i \in -1..MAX_HISTORY : restoreHistoryEntry(i)

Spec == Init /\ [][Next]_vars

\* The editor with the buttons that clear the buffer
NextCase ==
    \/ Next
    \/ \E confirmed \in BOOLEAN : clearAll(confirmed)
    \/ \E confirmed \in BOOLEAN : newSpecimen(confirmed)

SpecCase == Init /\ [][NextCase]_vars

\* ------------------------------------------------------------------------
\* Specification of the increment engine: a saved draft is loaded, the user
\* moves the selection, types one character into it, takes insertions back
\* ------------------------------------------------------------------------

\* Drafts the session starts from: a block line with a fresh line under it,
\* a block line, a block with an indented sub-line, a block with a
\* placeholder line, a placeholder line with no block above, a block with
\* a placeholder line that has another separator, and a block with a
\* placeholder line that holds a bracket field further on
EngineDrafts == { << "A", "1", HYPHEN, "t", "i", "s", "s", "u", "e", NL >>,
                 << "A", "1", HYPHEN, "t", "i", "s", "s", "u", "e" >>,
                 << "A", "1", HYPHEN, "t", NL, SPACE, SPACE, "s" >>,
                 << "A", "1", HYPHEN, "t", NL, "[", "_", "]", HYPHEN, "u" >>,
                 << "[", "_", "]", HYPHEN, "u" >>,
                 << "A", "3", COLON, "x", NL, "[", SPACE, "]", TAB, "u" >>,
                 << "A", "1", HYPHEN, "t", NL, "[", "_", "]", HYPHEN, "[", "u", "]" >> }

EngineChars == {"x", NL}

\* The texts one typed character makes of a draft
EngineTexts ==
    UNION { { SubSeq(d, 1, p) \o << c >> \o SubSeq(d, p + 1, Len(d)) :
                  p \in 0..Len(d), c \in EngineChars } : d \in EngineDrafts }

\* Longest span the user selects
MaxSelLen == 3

\* The offsets at which a line of text starts or ends
LineEdges(text) ==
    { q \in 0..Len(text) : LineStartOf(text, q) = q \/ q = Len(text)
                               \/ text[q + 1] = NL }

\* The selections the user makes in text: a caret at either end of a line,
\* a span of up to MaxSelLen characters from the start of a line, or a whole
\* bracket field
Selections(text) ==
    { << p, p >> : p \in LineEdges(text) }
        \cup { << p, p + n >> : p \in {q \in 0..Len(text) : LineStartOf(text, q) = q},
                              n \in 1..MaxSelLen }
        \cup { << findAllFields(text)[i].start, findAllFields(text)[i].end >> :
                   i \in 1..Len(findAllFields(text)) }

InitEngine ==
    /\ value \in EngineDrafts
    /\ LET h == recordSnapshot(Tape(<< >>, -1), FALSE, value, "draft")
       IN  historyTape = h.tape /\ historyIdx = h.idx
    /\ selectionStart = 0
    /\ selectionEnd = 0
    /\ format = FORMAT_LN
    /\ lastAutoInsert = NoInsert
    /\ ignoreNext = FALSE
    /\ snapshotTimer = "none"
    /\ snapStray = 0
    /\ restoringFromHistory = FALSE
    /\ last = [op |-> "init", arg |-> -1, ret |-> "void", idx |-> -1, len |-> 0,
               adv |-> << >>, inputType |-> "none", sel |-> << >>,
               moved |-> FALSE]
    /\ FieldIdle
    /\ GrammarIdle

NextEngine ==
    \/ \E c \in EngineChars : TypeIn(c, EngineTexts)
    \/ \E sel \in Selections(value) : SelectionChange(sel[1], sel[2])
    \/ handleUndo
    \/ undoAction

SpecEngine == InitEngine /\ [][NextEngine]_vars

\* Drafts to erase in: a block with a fresh line under it, and a block with
\* an indented sub-line
EraseDrafts == { << "A", "1", HYPHEN, "t", NL >>,
                << "A", "1", HYPHEN, "t", NL, SPACE, SPACE, "s" >> }

\* The texts typing "x" at the end of a line makes of a draft
EraseTexts ==
    UNION { { SubSeq(d, 1, p) \o << "x" >> \o SubSeq(d, p + 1, Len(d)) :
                  p \in LineEdges(d) } : d \in EraseDrafts }

InitErase ==
    /\ value \in EraseDrafts
    /\ LET h == recordSnapshot(Tape(<< >>, -1), FALSE, value, "draft")
       IN  historyTape = h.tape /\ historyIdx = h.idx
    /\ selectionStart = 0
    /\ selectionEnd = 0
    /\ format = FORMAT_LN
    /\ lastAutoInsert = NoInsert
    /\ ignoreNext = FALSE
    /\ snapshotTimer = "none"
    /\ snapStray = 0
    /\ restoringFromHistory = FALSE
    /\ last = [op |-> "init", arg |-> -1, ret |-> "void", idx |-> -1, len |-> 0,
               adv |-> << >>, inputType |-> "none", sel |-> << >>,
               moved |-> FALSE]
    /\ FieldIdle
    /\ GrammarIdle

\* The engine under typing, caret moves and backspace
NextErase ==
    \/ TypeIn("x", EraseTexts)
    \/ \E p \in LineEdges(value) : SelectionChange(p, p)
    \/ Backspace

SpecErase == InitErase /\ [][NextErase]_vars

\* ------------------------------------------------------------------------
\* Specification of the manual operations: a saved draft is loaded, the
\* user presses the new-block button, asks for the next specimen, types,
\* moves the caret and takes insertions back
\* ------------------------------------------------------------------------

\* Drafts the session starts from: a block line with a fresh line under it,
\* a line that is no block, a block with a placeholder line, and a
\* placeholder line with no block above
ManualDrafts == { << "A", "1", HYPHEN, "t", NL >>,
                 << "t", NL >>,
                 << "A", "1", HYPHEN, "t", NL, "[", "_", "]", COLON, "u" >>,
                 << "[", "_", "]", HYPHEN, "u" >> }

\* Longest buffer the session grows
MaxManualLen == 14

\* A caret in the draft d, with nothing inserted yet
AtCaret(d, p) == Engine(d, p, p, FALSE, NoInsert, NoAdvance)

\* The buffers one manual insertion makes of a draft
ManualGrown ==
    UNION { { AppendBlock(AtCaret(d, p), findLastBlock(d, p, FORMAT_LN),
                          FORMAT_LN).value : p \in LineEdges(d) }
            \cup { AppendSpecimen(AtCaret(d, p), findLastBlock(d, p, FORMAT_LN),
                                  FORMAT_LN).value : p \in LineEdges(d) } :
            d \in ManualDrafts }

\* The texts one typed character makes of a draft or of a grown draft
ManualTexts ==
    UNION { { SubSeq(d, 1, p) \o << c >> \o SubSeq(d, p + 1, Len(d)) :
                  p \in 0..Len(d), c \in EngineChars } :
            d \in ManualDrafts \cup ManualGrown }

\* The selections the user makes: a caret at either end of a line, or a
\* whole bracket field
ManualSelections(text) ==
    { << p, p >> : p \in LineEdges(text) }
        \cup { << findAllFields(text)[i].start, findAllFields(text)[i].end >> :
                   i \in 1..Len(findAllFields(text)) }

InitManual ==
    /\ value \in ManualDrafts
    /\ LET h == recordSnapshot(Tape(<< >>, -1), FALSE, value, "draft")
       IN  historyTape = h.tape /\ historyIdx = h.idx
    /\ selectionStart \in LineEdges(value)
    /\ selectionEnd = selectionStart
    /\ format = FORMAT_LN
    /\ lastAutoInsert = NoInsert
    /\ ignoreNext = FALSE
    /\ snapshotTimer = "none"
    /\ snapStray = 0
    /\ restoringFromHistory = FALSE
    /\ last = [op |-> "init", arg |-> -1, ret |-> "void", idx |-> -1, len |-> 0,
               adv |-> << >>, inputType |-> "none", sel |-> << >>,
               moved |-> FALSE]
    /\ FieldIdle
    /\ GrammarIdle

NextManual ==
    \/ \E saved \in {-1, selectionStart} :
          Len(value) + 4 <= MaxManualLen /\ newBlock(saved)
    \/ Len(value) + 4 <= MaxManualLen /\ handleNewSpecimen
    \/ handleUndo
    \/ \E c \in EngineChars : TypeIn(c, ManualTexts)
    \/ \E sel \in ManualSelections(value) : SelectionChange(sel[1], sel[2])

SpecManual == InitManual /\ [][NextManual]_vars

\* ------------------------------------------------------------------------
\* Field navigator and auto-advance controller: handlers
\* ------------------------------------------------------------------------

\* goToNextField(fromPos) on text with the selection [ss, se): what it
\* returns, the selection it leaves and the anchor it sets
goToNextField(text, from, ss, se) ==
    IF findAllFields(text) = << >>
    THEN [found |-> FALSE, selectionStart |-> ss, selectionEnd |-> se, anchor |-> -1]
    ELSE [found |-> TRUE,
          selectionStart |-> NextTarget(findAllFields(text), from).start,
          selectionEnd |-> NextTarget(findAllFields(text), from).end,
          anchor |-> NextTarget(findAllFields(text), from).start]

\* The state goToNextField leaves when it returned r: with a target it sets
\* the selection (which queues a selectionchange event), focuses the
\* textarea, drops the cursor-back watch and clears the timer
Navigated(r) ==
    /\ selectionStart' = r.selectionStart
    /\ selectionEnd' = r.selectionEnd
    /\ anchor' = r.anchor
    /\ focused' = (r.found \/ focused)
    /\ selPending' = (selPending \/ << r.selectionStart, r.selectionEnd >>
                                       # << selectionStart, selectionEnd >>)
    /\ UNCHANGED << value, engineVars, tapeVars, auto, learned, grammarVars >>

\* The click on the next-field button, once its 260 ms timer ran
NextFieldClick ==
    /\ ~selPending
    /\ Navigated(goToNextField(value, selectionEnd, selectionStart, selectionEnd))
    /\ watchBack' = (findAllFields(value) = << >> /\ watchBack)
    /\ advTimer' = (findAllFields(value) = << >> /\ advTimer)
    /\ advStray' = advStray
    /\ last' = [Did("goToNextField", selectionEnd,
                    IF findAllFields(value) = << >> THEN "false" ELSE "true")
                   EXCEPT !.sel = << selectionStart', selectionEnd' >>]
    /\ UNCHANGED << lastAdvRecent, lastAdvFromPos, lastAdvCtx >>

\* The loop of goPrevField: the last of fields[1..i] that starts before
\* from - 1, NoMatch when there is none
RECURSIVE FindBefore(_, _, _)
FindBefore(fields, from, i) ==
    IF i < 1 THEN NoMatch
    ELSE IF fields[i].start < from - 1 THEN [ok |-> TRUE, field |-> fields[i]]
    ELSE FindBefore(fields, from, i - 1)

\* The target of goPrevField: that field, or the last one
PrevTarget(fields, from) ==
    IF FindBefore(fields, from, Len(fields)).ok
    THEN FindBefore(fields, from, Len(fields)).field
    ELSE fields[Len(fields)]

\* goPrevField that leaves the anchor where the selection started
goPrevField_AnchorAtCaret(text, from, ss, se) ==
    IF findAllFields(text) = << >>
    THEN [found |-> FALSE, selectionStart |-> ss, selectionEnd |-> se, anchor |-> -1]
    ELSE [found |-> TRUE,
          selectionStart |-> PrevTarget(findAllFields(text), from).start,
          selectionEnd |-> PrevTarget(findAllFields(text), from).end,
          anchor |-> ss]

\* goPrevField(): what it returns and leaves in the textarea and fieldAdv
goPrevField(text, from, ss, se) ==
    IF findAllFields(text) = << >>
    THEN [found |-> FALSE, selectionStart |-> ss, selectionEnd |-> se, anchor |-> -1]
    ELSE [found |-> TRUE,
          selectionStart |-> PrevTarget(findAllFields(text), from).start,
          selectionEnd |-> PrevTarget(findAllFields(text), from).end,
          anchor |-> PrevTarget(findAllFields(text), from).start]

\* The click on the previous-field button
PrevFieldClick ==
    /\ ~selPending
    /\ Navigated(goPrevField(value, selectionStart, selectionStart, selectionEnd))
    /\ watchBack' = (findAllFields(value) = << >> /\ watchBack)
    /\ advTimer' = (findAllFields(value) = << >> /\ advTimer)
    /\ advStray' = advStray
    /\ last' = [Did("goPrevField", selectionStart,
                    IF findAllFields(value) = << >> THEN "false" ELSE "true")
                   EXCEPT !.sel = << selectionStart', selectionEnd' >>]
    /\ UNCHANGED << lastAdvRecent, lastAdvFromPos, lastAdvCtx >>

\* The callback of fieldAdv.timer: it records where and after which word it
\* advanced, raises the cursor-back watch and calls goToNextField(fromPos)
AdvanceTimerFire ==
    /\ ~selPending
    /\ advTimer
    /\ lastAdvCtx' = AdvanceContext(anchor, value, selectionEnd)
    /\ lastAdvFromPos' = selectionEnd
    /\ lastAdvRecent' = TRUE
    /\ Navigated(goToNextField(value, selectionEnd, selectionStart, selectionEnd))
    /\ watchBack' = (findAllFields(value) = << >>)
    /\ advTimer' = FALSE
    /\ advStray' = advStray
    /\ last' = [Did("advanceTimer", -1,
                    IF findAllFields(value) = << >> THEN "false" ELSE "true")
                   EXCEPT !.sel = << selectionStart', selectionEnd' >>,
                          !.moved = (findAllFields(value) # << >>)]

\* The selectionchange event queued by setSelectionRange reaches the listeners
SelectionEvent ==
    /\ selPending
    /\ focused
    /\ Selected(selectionStart, selectionEnd,
                FillPlan(value, selectionStart, selectionEnd, format))

\* More than 4000 ms have passed since fieldAdv.lastAdvTime
WindowExpires ==
    /\ ~selPending
    /\ lastAdvRecent
    /\ lastAdvRecent' = FALSE
    /\ last' = Did("clock", -1, "void")
    /\ UNCHANGED << textVars, engineVars, tapeVars, anchor, advTimer, advStray, auto, learned,
                    lastAdvFromPos, lastAdvCtx, watchBack, focused, selPending,
                    grammarVars >>

\* The click on "clear learned exceptions" in the preferences
ClearLearned ==
    /\ ~selPending
    /\ learned # << >>
    /\ learned' = << >>
    /\ last' = Did("clearLearned", -1, "void")
    /\ UNCHANGED << textVars, engineVars, tapeVars, anchor, advTimer, advStray, auto,
                    lastAdvRecent, lastAdvFromPos, lastAdvCtx, watchBack, focused,
                    selPending, grammarVars >>

\* The click on the chip of the learned word w: learned.filter(x => x !== w)
RemoveLearned(w) ==
    /\ ~selPending
    /\ learned' = SelectSeq(learned, LAMBDA x : x # w)
    /\ last' = Did("removeLearned", -1, "void")
    /\ UNCHANGED << textVars, engineVars, tapeVars, anchor, advTimer, advStray, auto,
                    lastAdvRecent, lastAdvFromPos, lastAdvCtx, watchBack, focused,
                    selPending, grammarVars >>

\* toggleAutoAdvance that leaves a pending timer running when it switches off
toggleAutoAdvance_KeepsTimer ==
    /\ ~selPending
    /\ auto' = ~auto
    /\ advTimer' = advTimer
    /\ advStray' = advStray
    /\ last' = Did("toggleAutoAdvance", -1, "void")
    /\ UNCHANGED << textVars, engineVars, tapeVars, anchor, learningVars, focused,
                    selPending, grammarVars >>

toggleAutoAdvance ==
    /\ ~selPending
    /\ auto' = ~auto
    /\ advTimer' = (~auto /\ advTimer)
    /\ advStray' = advStray
    /\ last' = Did("toggleAutoAdvance", -1, "void")
    /\ UNCHANGED << textVars, engineVars, tapeVars, anchor, learningVars, focused,
                    selPending, grammarVars >>

\* The textarea loses or regains the focus
Blur ==
    /\ ~selPending
    /\ focused
    /\ focused' = FALSE
    /\ last' = Did("blur", -1, "void")
    /\ UNCHANGED << textVars, engineVars, tapeVars, anchor, advTimer, advStray, auto,
                    learningVars, selPending, grammarVars >>

Focus ==
    /\ ~selPending
    /\ ~focused
    /\ focused' = TRUE
    /\ last' = Did("focus", -1, "void")
    /\ UNCHANGED << textVars, engineVars, tapeVars, anchor, advTimer, advStray, auto,
                    learningVars, selPending, grammarVars >>

\* The dictation host replaces the selection by the phrase p: one input event
\* of type insertText whose data is the phrase; docs are the buffers the
\* edit may produce
Dictate(p, docs) ==
    /\ ~selPending
    /\ focused
    /\ (Substring(value, 0, selectionStart) \o p \o SubstringFrom(value, selectionEnd))
           \in docs
    /\ DeliverInput(Tape(historyTape, historyIdx),
                    Substring(value, 0, selectionStart) \o p
                        \o SubstringFrom(value, selectionEnd),
                    selectionStart + Len(p), "insertText", "dictate")

\* ------------------------------------------------------------------------
\* Specification of the field navigator and the auto-advance controller
\* ------------------------------------------------------------------------

\* Templates with bracket fields
FieldDrafts == { << "[", "a", "]", SPACE, "[", "b", "]" >>,
                 << "s", COLON, SPACE, "[", "_", "]" >>,
                 << "A", "1", SPACE, "[", "a", "]", NL, "[", "_", "]", HYPHEN, "u" >>,
                 << "A", "1", SPACE, "[", "a", "]", NL >> }

\* What is dictated into a field
FieldPhrases == { << "b", "r", "e", "a", "s", "t", SPACE, "m", "a", "s", "s" >>,
                  << "b", "r", "e", "a", "s", "t", ",", SPACE >>,
                  << "o", "f" >> }

\* Single characters typed at the end of the buffer
EndChars == { << "," >>, << "x" >> }

\* text with the field f replaced by the phrase p
ReplaceField(text, f, p) ==
    Substring(text, 0, f.start) \o p \o SubstringFrom(text, f.end)

\* The texts of docs, and those with one more field replaced by a phrase
OneMoreFilled(docs) ==
    docs \cup UNION { UNION { { ReplaceField(t, findAllFields(t)[i], p) :
                                   p \in FieldPhrases } :
                               i \in 1..Len(findAllFields(t)) } : t \in docs }

\* The templates with a phrase dictated just behind the opening bracket of
\* a field
DictatedInside ==
    UNION { UNION { { Substring(t, 0, findAllFields(t)[i].start + 1) \o p
                          \o SubstringFrom(t, findAllFields(t)[i].start + 1) :
                          p \in FieldPhrases } :
                    i \in 1..Len(findAllFields(t)) } : t \in FieldDrafts }

\* The templates with a phrase dictated at their end
DictatedAtEnd == { t \o p : t \in FieldDrafts, p \in FieldPhrases \cup EndChars }

\* The templates with two characters typed at their end, one after the other
TypedAtEnd == { t \o p \o q : t \in FieldDrafts, p \in EndChars, q \in EndChars }

\* The buffers of the field specification before the engine acts on them:
\* the templates with any of their fields replaced by a phrase, or with a
\* phrase inside one field or at the end, or two characters at the end
FieldTexts ==
    OneMoreFilled(OneMoreFilled(FieldDrafts)) \cup DictatedInside \cup DictatedAtEnd
        \cup TypedAtEnd

\* Learned words loaded by loadFieldPrefs
SavedLearned == { << >>, << << "m", "a", "s", "s" >> >> }

\* Where the user puts the caret: at either end of a line, or just behind the
\* opening bracket of a field
Carets(text) ==
    { << p, p >> : p \in LineEdges(text) }
        \cup { << findAllFields(text)[i].start + 1, findAllFields(text)[i].start + 1 >> :
                  i \in 1..Len(findAllFields(text)) }

InitField ==
    /\ value \in FieldDrafts
    /\ LET h == recordSnapshot(Tape(<< >>, -1), FALSE, value, "draft")
       IN  historyTape = h.tape /\ historyIdx = h.idx
    /\ selectionStart = 0
    /\ selectionEnd = 0
    /\ format = FORMAT_LN
    /\ lastAutoInsert = NoInsert
    /\ ignoreNext = FALSE
    /\ snapshotTimer = "none"
    /\ snapStray = 0
    /\ restoringFromHistory = FALSE
    /\ last = [op |-> "init", arg |-> -1, ret |-> "void", idx |-> -1, len |-> 0,
               adv |-> << >>, inputType |-> "none", sel |-> << >>,
               moved |-> FALSE]
    /\ anchor = -1
    /\ advTimer = FALSE
    /\ advStray = 0
    /\ auto \in BOOLEAN
    /\ learned \in SavedLearned
    /\ lastAdvRecent = FALSE
    /\ lastAdvFromPos = -1
    /\ lastAdvCtx = << >>
    /\ watchBack = FALSE
    /\ focused = TRUE
    /\ selPending = FALSE
    /\ GrammarIdle

NextField ==
    \/ NextFieldClick
    \/ PrevFieldClick
    \/ \E p \in FieldPhrases \cup EndChars : Dictate(p, FieldTexts)
    \/ \E sel \in Carets(value) :
           ~selPending /\ SelectionChange(sel[1], sel[2])
    \/ SelectionEvent
    \/ AdvanceTimerFire
    \/ WindowExpires
    \/ toggleAutoAdvance
    \/ Blur
    \/ Focus

SpecField == InitField /\ [][NextField]_vars

\* A pending timeout callback is run by the event loop once its delay has
\* passed
SpecFieldFair ==
    SpecField /\ WF_vars(AdvanceTimerFire)

\* ------------------------------------------------------------------------
\* Specification of a session with the field controller, the history
\* restores and the buttons that clear the buffer
\* ------------------------------------------------------------------------

\* The template the session starts from
SessionDrafts == { << "[", "a", "]", SPACE, "[", "b", "]" >> }

\* What is dictated into a field
SessionPhrases == { << "b", "r", "e", "a", "s", "t", SPACE, "m", "a", "s", "s" >> }

InitSession ==
    /\ value \in SessionDrafts
    /\ LET h == recordSnapshot(Tape(<< >>, -1), FALSE, value, "draft")
       IN  historyTape = h.tape /\ historyIdx = h.idx
    /\ selectionStart = 0
    /\ selectionEnd = 0
    /\ format = FORMAT_LN
    /\ lastAutoInsert = NoInsert
    /\ ignoreNext = FALSE
    /\ snapshotTimer = "none"
    /\ snapStray = 0
    /\ restoringFromHistory = FALSE
    /\ last = [op |-> "init", arg |-> -1, ret |-> "void", idx |-> -1, len |-> 0,
               adv |-> << >>, inputType |-> "none", sel |-> << >>,
               moved |-> FALSE]
    /\ anchor = -1
    /\ advTimer = FALSE
    /\ advStray = 0
    /\ auto = TRUE
    /\ learned = << >>
    /\ lastAdvRecent = FALSE
    /\ lastAdvFromPos = -1
    /\ lastAdvCtx = << >>
    /\ watchBack = FALSE
    /\ focused = TRUE
    /\ selPending = FALSE
    /\ GrammarIdle

NextSession ==
    \/ NextFieldClick
    \/ \E p \in SessionPhrases : Dictate(p, FieldTexts)
    \/ SelectionEvent
    \/ AdvanceTimerFire
    \/ SnapshotTimerFire
    \/ \E confirmed \in BOOLEAN : clearAll(confirmed)
    \/ \E confirmed \in BOOLEAN : newSpecimen(confirmed)
    \/ undoAction
    \/ redoAction
    \/ \E i \in -1..MAX_HISTORY : restoreHistoryEntry(i)

SpecSession == InitSession /\ [][NextSession]_vars

\* ------------------------------------------------------------------------
\* Properties of the history tape
\* ------------------------------------------------------------------------

Labels == {"typed", "word", "paste", "clipboard", "block", "draft", "pre-undo",
           "new case", "new specimen"}

\* The last n entries of the sequence q (all of it when it is shorter)
LastN(q, n) == IF Len(q) <= n THEN q ELSE SubSeq(q, Len(q) - n + 1, Len(q))

\* The snapshots one handler can append: one or two, of the text before or
\* after the handler ran
NewSnaps ==
    LET snaps == [text : {value, value'}, label : Labels]
    IN  {<< a >> : a \in snaps} \cup {<< a, b >> : a \in snaps, b \in snaps}

\* The handler of this step went back one entry after recording
SteppedBack == IF last'.op = "undo" /\ last'.ret = "true" THEN 1 ELSE 0

\* C1 - Redo-branch truncation: whenever a handler appends a snapshot while idx
\* is not at the last entry of the tape, every entry after idx is dropped
\* before the append, the new snapshot is the last entry and idx points to it
\* (one entry before it when the handler is undo, which then steps back); so
\* after a plain recordSnapshot nothing is left to redo.
C1_RedoBranchTruncated ==
    [][ (historyIdx < Len(historyTape) - 1 /\ historyTape' # historyTape) =>
          \E news \in NewSnaps :
             LET full == SubSeq(historyTape, 1, historyIdx + 1) \o news IN
             /\ historyTape' = LastN(full, MAX_HISTORY)
             /\ historyTape'[Len(historyTape')].text =
                   (IF last'.op = "undo" THEN value ELSE value')
             /\ historyIdx' = Len(historyTape') - 1 - SteppedBack
             /\ (last'.op = "snapshotTimer" => historyIdx' >= Len(historyTape') - 1)
      ]_vars

\* The scenario of C1: snapshots "a" and "ab", undo, the buffer edited to "ac",
\* and the idle timer has recorded it from idx = 0 of a two-entry tape
C1_Witness ==
    /\ last.op = "snapshotTimer"
    /\ last.idx = 0 /\ last.len = 2
    /\ Len(historyTape) = 2 /\ historyIdx = 1
    /\ historyTape[1].text = << "a" >>
    /\ historyTape[2].text = << "a", "c" >>
    /\ value = << "a", "c" >>

\* C2 - De-duplication: recordSnapshot, under any label, with the buffer equal
\* to the text of the entry at idx leaves the tape and idx as they are, also
\* when entries follow idx; the timers' own calls behave so.
C2_Dedup ==
    /\ [](historyIdx >= 0 =>
            \A l \in Labels :
               recordSnapshot(Tape(historyTape, historyIdx), FALSE,
                              historyTape[historyIdx + 1].text, l)
                  = Tape(historyTape, historyIdx))
    /\ [][ (/\ last'.op = "snapshotTimer"
            /\ historyIdx >= 0
            /\ value = historyTape[historyIdx + 1].text) =>
             (historyTape' = historyTape /\ historyIdx' = historyIdx) ]_vars

\* The idle timer fired on a buffer equal to the current entry while a redo
\* branch existed, and the branch is still there
C2_Witness ==
    /\ last.op = "snapshotTimer"
    /\ last.idx >= 0 /\ last.idx < last.len - 1
    /\ historyIdx = last.idx /\ Len(historyTape) = last.len
    /\ value = historyTape[historyIdx + 1].text

\* C3 - Undo never loses unsaved work: undo() with a buffer B that differs from
\* the current entry appends B as a 'pre-undo' snapshot, moves idx to the
\* entry before it and puts that entry's text (the text of the entry that was
\* current) into the buffer; the entry after idx then holds B, and redo()
\* restores the buffer to the text of the entry after idx.
C3_UndoKeepsUnsavedWork ==
    [][ /\ (/\ last'.op = "undo"
            /\ historyIdx >= 0
            /\ value # historyTape[historyIdx + 1].text) =>
              /\ historyTape'[Len(historyTape')] = [text |-> value, label |-> "pre-undo"]
              /\ historyIdx' = Len(historyTape') - 2
              /\ historyIdx' >= 0
              /\ value' = historyTape'[historyIdx' + 1].text
              /\ value' = historyTape[historyIdx + 1].text
              /\ last'.ret = "true"
        /\ (/\ last'.op = "redo"
            /\ historyIdx < Len(historyTape) - 1) =>
              /\ value' = historyTape[historyIdx + 2].text
              /\ historyTape' = historyTape
              /\ last'.ret = "true"
      ]_vars

\* An undo has just saved the unsaved buffer "ab" under 'pre-undo' and gone
\* back to the entry holding "a"
C3_Witness ==
    /\ last.op = "undo" /\ last.ret = "true"
    /\ Len(historyTape) = 2 /\ historyIdx = 0
    /\ historyTape[2] = [text |-> << "a", "b" >>, label |-> "pre-undo"]
    /\ value = << "a" >>

\* C4 - Tape cap: the tape never holds more than MAX_HISTORY entries; a handler
\* that appends to a full tape evicts as many of the oldest entries as it
\* appends, and idx, moved back by the number evicted, designates the snapshot
\* appended last (the one before it after undo's step back).
C4_TapeCap ==
    /\ [](Len(historyTape) <= MAX_HISTORY)
    /\ [][ (/\ Len(historyTape) = MAX_HISTORY
            /\ historyIdx = MAX_HISTORY - 1
            /\ historyTape' # historyTape) =>
              \E news \in NewSnaps :
                 LET full == historyTape \o news
                     evicted == Len(news)
                 IN  /\ historyTape' = SubSeq(full, evicted + 1, Len(full))
                     /\ Len(historyTape') = MAX_HISTORY
                     /\ historyIdx' = historyIdx + Len(news) - evicted - SteppedBack
                     /\ historyTape'[historyIdx' + 1 + SteppedBack].text =
                           (IF last'.op = "undo" THEN value ELSE value')
      ]_vars

\* The idle timer has appended to a full tape: the tape is still full and idx
\* is at the appended snapshot of the buffer
C4_Witness ==
    /\ last.op = "snapshotTimer"
    /\ last.len = MAX_HISTORY /\ last.idx = MAX_HISTORY - 1
    /\ Len(historyTape) = MAX_HISTORY /\ historyIdx = MAX_HISTORY - 1
    /\ historyTape[historyIdx + 1].text = value
    /\ historyTape[historyIdx + 1].label = "typed"

\* C5 - Boundary operations fail without effect: undo() at idx = 0 with the
\* buffer equal to the first entry, redo() at the last entry or on an empty
\* tape, and restoreTo(i) with i < 0 or i >= length leave the buffer, the
\* tape and idx unchanged; undo and redo return false.
C5_BoundaryNoEffect ==
    [][ /\ (/\ last'.op = "undo"
            /\ historyIdx = 0
            /\ value = historyTape[1].text) =>
              (UNCHANGED << value, historyTape, historyIdx >> /\ last'.ret = "false")
        /\ (/\ last'.op = "redo"
            /\ historyIdx >= Len(historyTape) - 1) =>
              (UNCHANGED << value, historyTape, historyIdx >> /\ last'.ret = "false")
        /\ (/\ last'.op = "restore"
            /\ (last'.arg < 0 \/ last'.arg >= Len(historyTape))) =>
              UNCHANGED << value, historyTape, historyIdx >>
      ]_vars

\* restoreTo was called with the index just past the last entry of a
\* non-empty tape
C5_Witness ==
    /\ last.op = "restore"
    /\ last.len >= 1 /\ last.arg = last.len
    /\ Len(historyTape) = last.len /\ historyIdx = last.idx

\* C6 - Restoring is not recording: undo() with the buffer equal to the current
\* entry, redo() and restoreTo(i) for a valid i leave the tape entries as they
\* are; when they restore they set idx and replace the buffer by the text of
\* the entry at idx with the caret at its end; no input listener runs, so the
\* engine inserts nothing, lastAutoInsert and the reentrancy flag keep their
\* values and no snapshot timer is armed.
C6_RestoreNotRecorded ==
    [][ (\/ (last'.op = "undo" /\ historyIdx >= 0
               /\ value = historyTape[historyIdx + 1].text)
         \/ last'.op = "redo"
         \/ (last'.op = "restore" /\ last'.arg >= 0
               /\ last'.arg < Len(historyTape))) =>
          /\ historyTape' = historyTape
          /\ UNCHANGED << lastAutoInsert, ignoreNext, snapshotTimer, snapStray >>
          /\ (last'.ret \in {"true", "restored"} =>
                /\ value' = historyTape[historyIdx' + 1].text
                /\ selectionStart' = Len(value')
                /\ selectionEnd' = Len(value'))
          /\ (last'.op = "restore" => historyIdx' = last'.arg)
          /\ (last'.op = "redo" /\ last'.ret = "true" => historyIdx' = historyIdx + 1)
          /\ (last'.op = "undo" /\ last'.ret = "true" => historyIdx' = historyIdx - 1)
      ]_vars

\* A restore has put back a text on whose last, empty line the engine would
\* insert a label if it were notified, and the engine holds an earlier insert
C6_Witness ==
    /\ last.op \in {"undo", "redo", "restore"}
    /\ last.ret \in {"true", "restored"}
    /\ value = Append(BlockText, NL)
    /\ selectionStart = Len(value)
    /\ lastAutoInsert.ok

\* ------------------------------------------------------------------------
\* Specification of the label grammar: the pure functions applied to inputs
\* drawn from bounded sets
\* ------------------------------------------------------------------------

RECURSIVE SeqsUpTo(_, _)
SeqsUpTo(S, n) ==
    IF n = 0 THEN {<< >>}
    ELSE LET shorter == SeqsUpTo(S, n - 1)
         IN  shorter \cup {Append(q, c) : q \in shorter, c \in S}

\* Longest letter suffix handed to nextLetterSuffix
MaxSuffixLen == 3

SuffixLetters == {"A", "B", "Y", "Z"}

GLetters == {"A", "B"}

GNums == {1, 3, 5, 9, 10}

\* The separators the patterns allow: tab, hyphen, en dash, em dash, ':',
\* ': ' and a single space
Separators == { << TAB >>, << HYPHEN >>, << ENDASH >>, << EMDASH >>, << COLON >>,
                << COLON, SPACE >>, << SPACE >> }

Dashes == {HYPHEN, ENDASH, EMDASH}

\* Description text after the separator: none, or a word
Descriptions == { << >>, << "x" >> }

\* Z is the last specimen letter
SingleInputs ==
    [kind : {"single"}, letter : GLetters \cup {"Z"}, num : GNums,
     sep : Separators, desc : Descriptions]

\* endLetter is << >> when the line leaves the end letter out
RangeInputs ==
    [kind : {"range"}, letter : GLetters, num : GNums, dash : Dashes,
     endLetter : {<< >>} \cup {<< l >> : l \in GLetters}, endNum : GNums,
     sep : Separators, desc : Descriptions]

SuffixInputs ==
    [kind : {"letters"}, letters : SeqsUpTo(SuffixLetters, MaxSuffixLen) \ {<< >>}]

\* Lines that findLastBlock must pass over: indented sub-lines (one of them
\* holding a label) and line-start placeholder lines
FillerLines == { << SPACE, SPACE, "s" >>, << SPACE, "A", "7", HYPHEN >>,
                 << TAB, "A", "9", HYPHEN, "x" >>,
                 << "[", "_", "]", HYPHEN >>, << "[", SPACE, "]", TAB, "x" >> }

\* Most filler lines put between the block line and the scan position
MaxFillers == 2

\* The lines above the fillers: one block, two blocks, a range, no block, and
\* a label the trimmed match does not accept
ScanHeads == { << << "A", "3", HYPHEN, "x" >> >>,
               << << "A", "1", HYPHEN >>, << "B", "2", COLON, "y" >> >>,
               << << "A", "1", HYPHEN, "3", HYPHEN >> >>,
               << << "q" >> >>,
               << << "A", "1", HYPHEN >>, << "A", "3", TAB >> >> }

\* head lines, then fillers, then the line the scan starts on
ScanInputs ==
    [kind : {"scan"}, head : ScanHeads, fillers : SeqsUpTo(FillerLines, MaxFillers),
     tail : {<< >>, << "x" >>}]

\* Specimen numbers and letter suffixes of number-letter lines
NLSpecimens == { << "1" >>, << "1", "2" >> }

NLSuffixes == { << "A" >>, << "C" >>, << "Z" >>, << "A", "Z" >>, << "Z", "Z" >> }

NLSingleInputs ==
    [kind : {"nlsingle"}, spec : NLSpecimens, suf : NLSuffixes,
     sep : Separators, desc : Descriptions]

\* endSpec is << >> when the line leaves the end specimen number out
NLRangeInputs ==
    [kind : {"nlrange"}, spec : NLSpecimens, suf : NLSuffixes, dash : Dashes,
     endSpec : {<< >>, << "1" >>}, endSuf : NLSuffixes,
     sep : Separators, desc : Descriptions]

\* Pairs of history texts compared by diffStats
DiffInputs ==
    [kind : {"diff"}, old : SeqsUpTo({"a", "b"}, MaxDiffLen),
     new : SeqsUpTo({"a", "b"}, MaxDiffLen)]

\* lines joined by '\n', each line followed by one
RECURSIVE JoinLines(_)
JoinLines(lines) ==
    IF lines = << >> THEN << >>
    ELSE Head(lines) \o << NL >> \o JoinLines(Tail(lines))

\* The buffer a scan input stands for; the scan position is its end
RenderScan(in) == JoinLines(in.head \o in.fillers) \o in.tail

\* The text of the line an input stands for
RenderLine(in) ==
    IF in.kind = "single"
    THEN << in.letter >> \o NumToStr(in.num) \o in.sep \o in.desc
    ELSE IF in.kind = "nlsingle"
    THEN in.spec \o in.suf \o in.sep \o in.desc
    ELSE IF in.kind = "nlrange"
    THEN in.spec \o in.suf \o << in.dash >> \o in.endSpec \o in.endSuf
            \o in.sep \o in.desc
    ELSE << in.letter >> \o NumToStr(in.num) \o << in.dash >> \o in.endLetter
            \o NumToStr(in.endNum) \o in.sep \o in.desc

InitGrammar ==
    /\ gIn \in SingleInputs \cup RangeInputs \cup SuffixInputs \cup ScanInputs
                \cup DiffInputs \cup NLSingleInputs \cup NLRangeInputs
    /\ gOut = NULL
    /\ gPrefix = << >>
    /\ gpc = "input"
    /\ value = << >>
    /\ selectionStart = 0
    /\ selectionEnd = 0
    /\ format = IF gIn.kind \in {"nlsingle", "nlrange"} THEN FORMAT_NL
                ELSE FORMAT_LN
    /\ lastAutoInsert = NoInsert
    /\ ignoreNext = FALSE
    /\ historyTape = << >>
    /\ historyIdx = -1
    /\ snapshotTimer = "none"
    /\ snapStray = 0
    /\ FieldIdle
    /\ restoringFromHistory = FALSE
    /\ last = [op |-> "init", arg |-> -1, ret |-> "void", idx |-> -1, len |-> 0,
               adv |-> << >>, inputType |-> "none", sel |-> << >>,
               moved |-> FALSE]

\* Cassette.parseBlockLine(line)
GParse ==
    /\ gpc = "input"
    /\ gIn.kind \in {"single", "range", "nlsingle", "nlrange"}
    /\ gOut' = parseBlockLine(RenderLine(gIn), format)
    /\ gpc' = "parsed"
    /\ UNCHANGED << gIn, gPrefix, textVars, engineVars, tapeVars, fieldVars, last >>

\* nextPrefix(parsed) of a parsed line
GNext ==
    /\ gpc = "parsed"
    /\ gOut.ok
    /\ gPrefix' = nextPrefix(gOut, << >>, format)
    /\ gpc' = "next"
    /\ UNCHANGED << gIn, gOut, textVars, engineVars, tapeVars, fieldVars, last >>

\* nextSpecimenPrefix(parsed) of a parsed line
GGroup ==
    /\ gpc = "parsed"
    /\ gOut.ok
    /\ gPrefix' = nextSpecimenPrefix(gOut, << >>, format)
    /\ gpc' = "group"
    /\ UNCHANGED << gIn, gOut, textVars, engineVars, tapeVars, fieldVars, last >>

\* Cassette.nextLetterSuffix(letters)
GSuffix ==
    /\ gpc = "input"
    /\ gIn.kind = "letters"
    /\ gOut' = [ok |-> TRUE, letters |-> nextLetterSuffix(gIn.letters)]
    /\ gpc' = "suffixed"
    /\ UNCHANGED << gIn, gPrefix, textVars, engineVars, tapeVars, fieldVars, last >>

\* Cassette.findLastBlock(textarea, upToPos) with upToPos at the end of the text
GScan ==
    /\ gpc = "input"
    /\ gIn.kind = "scan"
    /\ gOut' = findLastBlock(RenderScan(gIn), Len(RenderScan(gIn)), format)
    /\ gpc' = "scanned"
    /\ UNCHANGED << gIn, gPrefix, textVars, engineVars, tapeVars, fieldVars, last >>

\* diffStats(oldText, newText) as renderHistoryTape calls it
GDiff ==
    /\ gpc = "input"
    /\ gIn.kind = "diff"
    /\ gOut' = [ok |-> TRUE, stats |-> diffStats(gIn.old, gIn.new)]
    /\ gpc' = "diffed"
    /\ UNCHANGED << gIn, gPrefix, textVars, engineVars, tapeVars, fieldVars, last >>

NextGrammar == GParse \/ GNext \/ GGroup \/ GSuffix \/ GScan \/ GDiff

SpecGrammar == InitGrammar /\ [][NextGrammar]_vars

\* ------------------------------------------------------------------------
\* Properties of the label grammar
\* ------------------------------------------------------------------------

\* C7 - For every single-block line L<n><sep> in letter-number format, with any
\* of the allowed separators and with or without description text after it,
\* the line parses and nextPrefix of the parse is L<n+1> followed by the same
\* separator.
C7_NextLabelKeepsSeparator ==
    (gIn.kind = "single" /\ gpc \in {"parsed", "next"}) =>
        /\ gOut.ok
        /\ ~gOut.isRange
        /\ (gpc = "next" =>
              gPrefix = << gIn.letter >> \o NumToStr(gIn.num + 1) \o gIn.sep)

\* The letters of a suffix as a number in base 26, A = 0
RECURSIVE SuffixValue(_)
SuffixValue(letters) ==
    IF letters = << >> THEN 0
    ELSE SuffixValue(SubSeq(letters, 1, Len(letters) - 1)) * 26
            + LetterCode(letters[Len(letters)])

RECURSIVE Pow26(_)
Pow26(n) == IF n = 0 THEN 1 ELSE 26 * Pow26(n - 1)

\* The n letters that write v in base 26
RECURSIVE SuffixOfValue(_, _)
SuffixOfValue(v, n) ==
    IF n = 0 THEN << >>
    ELSE Append(SuffixOfValue(v \div 26, n - 1), Alphabet[(v % 26) + 1])

\* The odometer rule: count one up in base 26 on the same number of letters;
\* when every letter was Z, the count wraps to all A with one more A in front
Odometer(letters) ==
    LET n == Len(letters)
        v == SuffixValue(letters) + 1
    IN  IF v = Pow26(n) THEN << "A" >> \o SuffixOfValue(0, n)
        ELSE SuffixOfValue(v, n)

\* C8 - nextLetterSuffix follows the odometer rule on every non-empty string
\* over A..Z: Z -> AA, AZ -> BA, ZZ -> AAA, and the result is never shorter
\* than the input.
C8_OdometerRule ==
    gpc = "suffixed" =>
        /\ gOut.letters = Odometer(gIn.letters)
        /\ Len(gOut.letters) >= Len(gIn.letters)
        /\ (gIn.letters = << "Z" >> => gOut.letters = << "A", "A" >>)
        /\ (gIn.letters = << "A", "Z" >> => gOut.letters = << "B", "A" >>)
        /\ (gIn.letters = << "Z", "Z" >> => gOut.letters = << "A", "A", "A" >>)

\* ZZ was incremented: the carry passed the first letter
C8_Witness ==
    /\ gpc = "suffixed"
    /\ gIn.letters = << "Z", "Z" >>
    /\ gOut.letters = << "A", "A", "A" >>

\* The range lines C9 is about: same letter at both ends (given or left out)
\* and an end number not below the start number
IsForwardRange(in) ==
    /\ in.kind = "range"
    /\ in.endLetter \in {<< >>, << in.letter >>}
    /\ in.endNum >= in.num

\* C9 - A letter-number range line L<a>-[L]<b><sep> with b >= a parses as a
\* range whose effective block is L<b> (the end letter defaults to the start
\* letter), so its next label is L<b+1><sep>.
C9_RangeDrivesByEnd ==
    (IsForwardRange(gIn) /\ gpc \in {"parsed", "next"}) =>
        /\ gOut.ok
        /\ gOut.isRange
        /\ gOut.specimen = gIn.letter
        /\ gOut.suffix = gIn.endNum
        /\ (gpc = "next" =>
              gPrefix = << gIn.letter >> \o NumToStr(gIn.endNum + 1) \o gIn.sep)

\* The range lines C10 is about: same letter at both ends and an end number
\* below the start number
IsBackwardRange(in) ==
    /\ in.kind = "range"
    /\ in.endLetter \in {<< >>, << in.letter >>}
    /\ in.endNum < in.num

\* C10 - A line matching the range pattern whose end number is less than its
\* start number, with equal letters, parses to null: it is not read as a
\* single block, and a scan for the last block over it finds nothing.
C10_BackwardRangeRejected ==
    (/\ IsBackwardRange(gIn)
     /\ RANGE_LN(RenderLine(gIn)).ok
     /\ gpc = "parsed") =>
        /\ ~gOut.ok
        /\ ~findLastBlock(RenderLine(gIn) \o << NL >>, Len(RenderLine(gIn)) + 1,
                          format).ok

\* The place of a letter suffix in the order A, B, ..., Z, AA, AB, ...
RECURSIVE SuffixOrdinal(_)
SuffixOrdinal(letters) ==
    IF letters = << >> THEN 0
    ELSE SuffixOrdinal(SubSeq(letters, 1, Len(letters) - 1)) * 26
            + LetterCode(letters[Len(letters)]) + 1

\* A number-letter range on one specimen whose end suffix precedes its start
IsBackwardRangeNL(in) ==
    /\ in.kind = "nlrange"
    /\ in.endSpec \in {<< >>, in.spec}
    /\ SuffixOrdinal(in.endSuf) < SuffixOrdinal(in.suf)

\* C31: in number-letter format a line matching the range pattern whose end
\* suffix precedes its start suffix, on the same specimen number, parses to
\* null: it yields no block to increment from
C31_BackwardRangeRejectedNL ==
    (/\ IsBackwardRangeNL(gIn)
     /\ RANGE_NL(RenderLine(gIn)).ok
     /\ gpc = "parsed") => ~gOut.ok

\* The label after parsed in its group is what reparsed holds: the same
\* specimen, the number one up or the letter suffix one up by the odometer
IsNextInGroup(parsed, reparsed, fmt) ==
    /\ reparsed.specimen = parsed.specimen
    /\ reparsed.suffix = IF fmt = FORMAT_NL THEN Odometer(parsed.suffix)
                         ELSE parsed.suffix + 1

\* The first label of the group after parsed is what reparsed holds: the
\* next specimen letter with number 1, or the next specimen number with
\* suffix A
IsFirstOfNextGroup(parsed, reparsed, fmt) ==
    IF fmt = FORMAT_NL
    THEN /\ ParseInt(reparsed.specimen) = ParseInt(parsed.specimen) + 1
         /\ reparsed.suffix = << "A" >>
    ELSE /\ LetterCode(reparsed.specimen) = LetterCode(parsed.specimen) + 1
         /\ reparsed.suffix = 1

\* C36: the label nextPrefix returns for a parsed line, and the label
\* nextSpecimenPrefix returns for it, alone on a line parses again in the
\* same format as a single block, not a range, that holds the expected
\* successor; so increments can be chained from any label
C36_ClosedUnderIncrement ==
    gpc \in {"next", "group"} =>
        /\ parseBlockLine(gPrefix, format).ok
        /\ ~parseBlockLine(gPrefix, format).isRange
        /\ IF gpc = "next"
           THEN IsNextInGroup(gOut, parseBlockLine(gPrefix, format), format)
           ELSE IsFirstOfNextGroup(gOut, parseBlockLine(gPrefix, format), format)

\* The buffer of a scan input with its filler lines taken out
WithoutFillers(in) == JoinLines(in.head) \o in.tail

\* C11 - findLastBlock returns the same block whether or not indented
\* sub-lines and line-start placeholder lines stand between the block line
\* and the scan position: with the fillers removed the scan finds a block
\* exactly when it found one with them, and it is the same block.
C11_FillersIgnored ==
    gpc = "scanned" =>
        LET base == findLastBlock(WithoutFillers(gIn), Len(WithoutFillers(gIn)), format)
        IN  /\ gOut.ok = base.ok
            /\ gOut.ok => gOut.parsed = base.parsed

\* The scan passed over an indented label and a placeholder line and
\* returned the block B2 above them
C11_Witness ==
    /\ gpc = "scanned"
    /\ gIn.head = << << "A", "1", HYPHEN >>, << "B", "2", COLON, "y" >> >>
    /\ gIn.fillers = << << SPACE, "A", "7", HYPHEN >>, << "[", "_", "]", HYPHEN >> >>
    /\ gOut.ok
    /\ gOut.parsed.specimen = "B"
    /\ gOut.parsed.suffix = 2

\* ------------------------------------------------------------------------
\* Properties of the increment engine
\* ------------------------------------------------------------------------

\* The buffer the native edit of typing c leaves, before the listeners run
TypedText(c) ==
    Substring(value, 0, selectionStart) \o << c >> \o SubstringFrom(value, selectionEnd)

\* The nearest of lines[k], lines[k-1], ... that is not blank, not indented
\* and not a placeholder line
RECURSIVE NearestRealLine(_, _)
NearestRealLine(lines, k) ==
    IF k < 1 THEN NULL
    ELSE IF Trim(lines[k]) = << >> THEN NearestRealLine(lines, k - 1)
    ELSE IF IsSpace(lines[k][1]) THEN NearestRealLine(lines, k - 1)
    ELSE IF PLACEHOLDER_LINE_PATTERN(lines[k]).ok THEN NearestRealLine(lines, k - 1)
    ELSE [ok |-> TRUE, line |-> lines[k]]

\* That line for the lines of text above the line pos is on
RealLineAbove(text, pos) ==
    NearestRealLine(Split(Substring(text, 0, pos)),
                    Len(Split(Substring(text, 0, pos))) - 1)

\* text with prefix put in at the start of the line pos is on
WithLabelAt(text, pos, prefix) ==
    Substring(text, 0, LineStartOf(text, pos)) \o prefix
        \o SubstringFrom(text, LineStartOf(text, pos))

\* C12 - Trigger 2: when typing a line break leaves the caret on an empty
\* line and the nearest line above that is not blank, indented or a
\* placeholder line is a block label, the next label of that block is put at
\* the start of the empty line and the caret stands right after it, also with
\* indented or placeholder lines in between.
C12_NewLineTrigger ==
    [][ (/\ last'.op = "type"
         /\ last'.inputType = "insertLineBreak"
         /\ Trim(LineAt(TypedText(NL), selectionStart + 1)) = << >>
         /\ RealLineAbove(TypedText(NL), selectionStart + 1).ok
         /\ parseBlockLine(RealLineAbove(TypedText(NL), selectionStart + 1).line,
                           format).ok) =>
            LET T == TypedText(NL)
                pos == selectionStart + 1
                prefix == nextPrefix(parseBlockLine(RealLineAbove(T, pos).line, format),
                                     << >>, format)
            IN  /\ value' = WithLabelAt(T, pos, prefix)
                /\ selectionStart' = LineStartOf(T, pos) + Len(prefix)
                /\ selectionEnd' = selectionStart' ]_vars

\* C13 - Trigger 3: typing x at the end of "A1-tissue\n" gives
\* "A1-tissue\nA2-x" with the caret after x and exactly one advance
\* notification, from 1 to 2; in general, when the typed character is the
\* only one on its line and the line above is a block label, the next label
\* is put before the character and the character is kept.
C13_FirstCharTrigger ==
    [][ (last'.op = "type" /\ last'.inputType = "insertText") =>
            /\ (/\ value = << "A", "1", HYPHEN, "t", "i", "s", "s", "u", "e", NL >>
                /\ selectionStart = Len(value)
                /\ selectionEnd = Len(value)) =>
                   /\ value' = << "A", "1", HYPHEN, "t", "i", "s", "s", "u", "e", NL, "A", "2", HYPHEN, "x" >>
                   /\ selectionStart' = Len(value')
                   /\ selectionEnd' = Len(value')
                   /\ Len(last'.adv) = 1
                   /\ last'.adv[1].from = 1
                   /\ last'.adv[1].to = 2
            /\ (/\ Len(LineAt(TypedText("x"), selectionStart + 1)) = 1
                /\ getPreviousNonEmptyLine(TypedText("x"), selectionStart + 1).ok
                /\ parseBlockLine(getPreviousNonEmptyLine(TypedText("x"),
                                                          selectionStart + 1).line,
                                  format).ok) =>
                   LET T == TypedText("x")
                       pos == selectionStart + 1
                       prefix == nextPrefix(
                                     parseBlockLine(getPreviousNonEmptyLine(T, pos).line,
                                                    format), << >>, format)
                   IN  /\ value' = WithLabelAt(T, pos, prefix)
                       /\ selectionStart' = LineStartOf(T, pos) + Len(prefix) + 1
                       /\ selectionEnd' = selectionStart' ]_vars

\* [s, e) is exactly the bracket token of a placeholder line, from the start
\* of that line to its closing bracket
ExactPlaceholderSpan(text, s, e) ==
    /\ s < e
    /\ LineStartOf(text, s) = s
    /\ PLACEHOLDER_LINE_PATTERN(LineAt(text, s)).ok
    /\ e = s + Len(PLACEHOLDER_LINE_PATTERN(LineAt(text, s)).g1)

\* C14 - Placeholder fill: when the selection comes to span exactly the
\* bracket placeholder at the start of its line and the scan upward from that
\* line finds a block, the placeholder and its separator are replaced by the
\* label after that block with the placeholder's own separator, the rest of
\* the buffer is unchanged and the caret stands right after the label.
C14_PlaceholderFill ==
    [][ (/\ last'.op = "select"
         /\ ExactPlaceholderSpan(value, last'.sel[1], last'.sel[2])
         /\ findLastBlock(value, last'.sel[1], format).ok) =>
            LET s == last'.sel[1]
                m == PLACEHOLDER_LINE_PATTERN(LineAt(value, s))
                block == findLastBlock(value, s, format).parsed
                label == << block.specimen >> \o NumToStr(block.suffix + 1) \o m.g2
            IN  /\ last'.ret = "filled"
                /\ value' = Substring(value, 0, s) \o label
                                \o SubstringFrom(value, s + Len(m.all))
                /\ selectionStart' = s + Len(label)
                /\ selectionEnd' = s + Len(label) ]_vars

\* The placeholder "[ ]" with a tab under the block A3 was selected and
\* became "A4" with the tab
C14_Witness ==
    /\ last.op = "select"
    /\ last.ret = "filled"
    /\ last.sel = << 5, 8 >>
    /\ value = << "A", "3", COLON, "x", NL, "A", "4", TAB, "u" >>
    /\ selectionStart = 8
    /\ selectionEnd = 8

\* C24: a selection that is not exactly the bracket placeholder at the start
\* of its line (it starts elsewhere on the line, or ends elsewhere than at
\* the placeholder's closing bracket) changes neither the buffer nor
\* lastAutoInsert and dispatches no advance
C24_ExactSpanOnly ==
    [][ (/\ last'.op = "select"
         /\ last'.sel # << >>
         /\ ~ExactPlaceholderSpan(value, last'.sel[1], last'.sel[2])) =>
            /\ value' = value
            /\ lastAutoInsert' = lastAutoInsert
            /\ last'.adv = << >> ]_vars

\* C25: the engine inserts a label only on an edit that typed a character
\* or made a new line; a backspace, whatever it leaves on the line, makes no
\* insertion: the buffer is what the deletion left and no advance is
\* dispatched
C25_InsertionEditsOnly ==
    [][ (last'.op = "delete" /\ value' # value) =>
            /\ last'.adv = << >>
            /\ value' = Substring(value, 0, selectionStart - 1)
                             \o SubstringFrom(value, selectionEnd)
            /\ lastAutoInsert' = lastAutoInsert ]_vars

\* C15 - Reentrancy: one host event makes at most one label insertion. Every
\* insertion dispatches one advance notification, so a step carries at most
\* one; a typing step without one leaves the buffer exactly as the native
\* edit left it; a selection step that fills leaves exactly the one splice,
\* and the input notification of that splice was swallowed by the guard.
C15_OneInsertionPerEvent ==
    [][ /\ Len(last'.adv) <= 1
        /\ (last'.op = "type" /\ last'.adv = << >>) =>
               \E c \in EngineChars : value' = TypedText(c)
        /\ (last'.op = "select" /\ last'.ret = "filled") =>
               /\ Len(last'.adv) = 1
               /\ value' = Replaced(value, FillPlan(value, last'.sel[1],
                                                    last'.sel[2], format))
               /\ ~ignoreNext' ]_vars

\* The placeholder under A1-t was filled by one splice with one notification
C15_Witness ==
    /\ last.op = "select"
    /\ last.ret = "filled"
    /\ Len(last.adv) = 1
    /\ ~ignoreNext
    /\ value = << "A", "1", HYPHEN, "t", NL, "A", "2", HYPHEN, "u" >>

\* after is before with ins spliced in at offset ls, in place of some
\* characters that stood there
SplicedAt(before, after, ls, ins) ==
    /\ Substring(after, 0, ls) = Substring(before, 0, ls)
    /\ Substring(after, ls, ls + Len(ins)) = ins
    /\ \E r \in 0..(Len(before) - ls) :
           SubstringFrom(after, ls + Len(ins)) = SubstringFrom(before, ls + r)

\* C16 - Every successful reactive trigger records in lastAutoInsert exactly
\* the text it inserted with its length, and emits exactly one advance
\* notification with that text as prefix and with the label of the block above
\* as from and the one after it as to.
C16_InsertRecorded ==
    [][ (last'.ret \in {"advance", "filled"}) =>
            LET ls == LineStartOf(value', selectionStart')
                block == findLastBlock(value', ls, format)
            IN  /\ lastAutoInsert'.ok
                /\ lastAutoInsert'.length = Len(lastAutoInsert'.inserted)
                /\ IF last'.op = "type"
                   THEN \E c \in EngineChars :
                            SplicedAt(TypedText(c), value', ls, lastAutoInsert'.inserted)
                   ELSE SplicedAt(value, value', ls, lastAutoInsert'.inserted)
                /\ Len(last'.adv) = 1
                /\ last'.adv[1].prefix = lastAutoInsert'.inserted
                /\ block.ok
                /\ last'.adv[1].letter = block.parsed.specimen
                /\ last'.adv[1].from = block.parsed.suffix
                /\ last'.adv[1].to = block.parsed.suffix + 1
                /\ \E sep \in {<< >>, <<"-">>, <<":">>, <<TAB>>, <<" ">>} :
                       lastAutoInsert'.inserted
                           = << last'.adv[1].letter >> \o NumToStr(last'.adv[1].to) \o sep
      ]_vars

\* Enter after "A1-tissue" inserted "A2-", recorded it and announced 1 -> 2
C16_Witness ==
    /\ last.op = "type"
    /\ last.ret = "advance"
    /\ value = << "A", "1", HYPHEN, "t", "i", "s", "s", "u", "e", NL, "A", "2", HYPHEN >>
    /\ lastAutoInsert.ok
    /\ lastAutoInsert.inserted = << "A", "2", HYPHEN >>
    /\ lastAutoInsert.length = 3
    /\ Len(last.adv) = 1
    /\ last.adv[1].from = 1
    /\ last.adv[1].to = 2

\* C17 - handleUndo is single-level and guarded: with a lastAutoInsert whose
\* text stands immediately before the caret, that text is removed, the caret
\* moves to where it began, lastAutoInsert is cleared and true is returned;
\* otherwise buffer, selection and lastAutoInsert are unchanged and false is
\* returned. A handleUndo right after a successful one returns false.
C17_UndoGuarded ==
    [][ (last'.op = "handleUndo") =>
            /\ IF /\ lastAutoInsert.ok
                  /\ selectionStart >= lastAutoInsert.length
                  /\ Substring(value, selectionStart - lastAutoInsert.length,
                               selectionStart) = lastAutoInsert.inserted
               THEN /\ last'.ret = "true"
                    /\ value' = Substring(value, 0,
                                          selectionStart - Len(lastAutoInsert.inserted))
                                    \o SubstringFrom(value, selectionStart)
                    /\ selectionStart' = selectionStart - Len(lastAutoInsert.inserted)
                    /\ selectionEnd' = selectionStart'
                    /\ ~lastAutoInsert'.ok
               ELSE /\ last'.ret = "false"
                    /\ UNCHANGED << value, selectionStart, selectionEnd,
                                    lastAutoInsert >>
            /\ (last.op = "handleUndo" /\ last.ret = "true") => last'.ret = "false"
      ]_vars

\* The "A2-" the engine put after "A1-tissue" was taken back
C17_Witness ==
    /\ last.op = "handleUndo"
    /\ last.ret = "true"
    /\ value = << "A", "1", HYPHEN, "t", "i", "s", "s", "u", "e", NL >>
    /\ selectionStart = 10
    /\ selectionEnd = 10
    /\ ~lastAutoInsert.ok

\* ------------------------------------------------------------------------
\* Properties of the auto-advance controller
\* ------------------------------------------------------------------------

\* The hold conditions on the buffer text with the caret at cursor, for the
\* anchor a and the learned words: the caret is inside a field, or the
\* trimmed text between anchor and caret is empty, ends in a continuation
\* character, or has a continuation or learned word as its last token
HoldCase(text, a, cursor, learnedWords) ==
    LET t == Trim(Substring(text, Min(a, Len(text)), cursor))
        token == ToLowerCase(StripPunct(LastWord(t)))
    IN  \/ isCursorInField(text, cursor)
        \/ t = << >>
        \/ t[Len(t)] \in {",", "."}
        \/ \E i \in 1..Len(contWords) : ToLowerCase(contWords[i]) = token
        \/ \E i \in 1..Len(learnedWords) : ToLowerCase(learnedWords[i]) = token

FirstFieldFrom(text, from, s, e) ==
    LET fields == findAllFields(text)
        after == { i \in 1..Len(fields) : fields[i].start >= from }
    IN  \E i \in 1..Len(fields) :
            /\ fields[i].start = s
            /\ fields[i].end = e
            /\ IF after = {} THEN i = 1
               ELSE i \in after /\ \A j \in after : i <= j

\* A mutation that leaves auto-advance on, an anchor, the caret outside every
\* field and a filled text that is not held arms the timer; "breast mass" is
\* such a text unless "mass" was learned
TimerArmed ==
    [][ /\ (/\ last'.op = "dictate"
            /\ auto
            /\ anchor' >= 0
            /\ ~HoldCase(value', anchor', selectionEnd', learned)) => advTimer'
        /\ (/\ last'.op = "dictate"
            /\ auto
            /\ anchor' >= 0
            /\ learned = << >>
            /\ Substring(value', anchor', selectionEnd') = << "b", "r", "e", "a", "s", "t", SPACE, "m", "a", "s", "s" >>)
               => advTimer' ]_vars

\* A pending timer is eventually not pending: it fired, or an event cancelled
\* it; and it fires only while pending, after which it is not pending
TimerFiresOnce ==
    /\ advTimer ~> ~advTimer
    /\ [][ (last'.op = "advanceTimer") => (advTimer /\ ~advTimer') ]_vars

C20_LearnsAfterAdvance ==
    [][ (/\ last'.op = "select"
         /\ ~selPending
         /\ last.moved
         /\ lastAdvRecent
         /\ focused
         /\ selectionStart' < lastAdvFromPos - 3
         /\ Len(lastAdvCtx) >= 2
         /\ ~\E i \in 1..Len(contWords) : contWords[i] = lastAdvCtx)
            => \E i \in 1..Len(learned') : learned'[i] = lastAdvCtx ]_vars

\* ------------------------------------------------------------------------
\* Properties of the history panel's diff counts
\* ------------------------------------------------------------------------

\* the longest common prefix of a and b, by definition
LongestCommonPrefix(a, b) ==
    CHOOSE k \in 0..Min(Len(a), Len(b)) :
        /\ SubSeq(a, 1, k) = SubSeq(b, 1, k)
        /\ \A j \in (k + 1)..Min(Len(a), Len(b)) : SubSeq(a, 1, j) # SubSeq(b, 1, j)

\* the longest common suffix of a and b, by definition
LongestCommonSuffix(a, b) ==
    CHOOSE k \in 0..Min(Len(a), Len(b)) :
        /\ SubSeq(a, Len(a) - k + 1, Len(a)) = SubSeq(b, Len(b) - k + 1, Len(b))
        /\ \A j \in (k + 1)..Min(Len(a), Len(b)) :
               SubSeq(a, Len(a) - j + 1, Len(a)) # SubSeq(b, Len(b) - j + 1, Len(b))

\* The counts of the unmatched middles: the common prefix is trimmed, then
\* the common suffix of the remainders
DiffReference(oldText, newText) ==
    LET p == LongestCommonPrefix(oldText, newText)
        restOld == SubSeq(oldText, p + 1, Len(oldText))
        restNew == SubSeq(newText, p + 1, Len(newText))
        q == LongestCommonSuffix(restOld, restNew)
    IN  [added |-> Len(restNew) - q, removed |-> Len(restOld) - q]

\* C23: diffStats(old, new) is the pair of lengths of the unmatched middles
\* left after trimming the longest common prefix and then the longest common
\* suffix of the remainders; both counts are >= 0, their difference is
\* |new| - |old|, and a text compared with itself gives 0 and 0
C23_DiffStats ==
    (gpc = "diffed") =>
        /\ gOut.stats = DiffReference(gIn.old, gIn.new)
        /\ gOut.stats.added >= 0
        /\ gOut.stats.removed >= 0
        /\ gOut.stats.added - gOut.stats.removed = Len(gIn.new) - Len(gIn.old)
        /\ (gIn.old = gIn.new => gOut.stats = [added |-> 0, removed |-> 0])

\* "ab" against "abb": the prefix takes "ab", nothing is left of the old
\* text for the suffix to match, one character was added
C23_Witness ==
    /\ gpc = "diffed"
    /\ gIn.old = << "a", "b" >> /\ gIn.new = << "a", "b", "b" >>
    /\ gOut.stats = [added |-> 1, removed |-> 0]

\* ------------------------------------------------------------------------
\* Properties of the field navigator
\* ------------------------------------------------------------------------

\* fields are bracket spans of text, in left-to-right order without overlap
FieldsInOrder(text, fields) ==
    /\ \A i \in 1..Len(fields) :
           /\ text[fields[i].start + 1] = "["
           /\ text[fields[i].end] = "]"
           /\ \A k \in (fields[i].start + 1)..(fields[i].end - 1) : text[k] # "]"
    /\ \A i \in 1..(Len(fields) - 1) : fields[i].end <= fields[i + 1].start

\* C21 - goToNextField from the offset `from` selects the first field, in
\* left-to-right order, whose start is >= from, wraps to the first field of
\* the buffer when none qualifies, and returns false when the buffer has no
\* field; from inside the first field it selects the second one, from past
\* the last field the first one.
C21_NextField ==
    [][ (last'.op = "goToNextField") =>
            LET fields == findAllFields(value)
                from == last'.arg
                n == Len(fields)
            IN  /\ from = selectionEnd
                /\ FieldsInOrder(value, fields)
                /\ IF fields = << >>
                   THEN /\ last'.ret = "false"
                        /\ UNCHANGED << selectionStart, selectionEnd >>
                   ELSE /\ last'.ret = "true"
                        /\ FirstFieldFrom(value, from, selectionStart', selectionEnd')
                        /\ (n >= 2 /\ from > fields[1].start /\ from <= fields[1].end) =>
                               /\ selectionStart' = fields[2].start
                               /\ selectionEnd' = fields[2].end
                        /\ (from > fields[n].start) =>
                               /\ selectionStart' = fields[1].start
                               /\ selectionEnd' = fields[1].end ]_vars

\* From the caret inside [a] the navigator selected [b]
C21_Witness ==
    /\ last.op = "goToNextField"
    /\ last.arg = 1
    /\ last.ret = "true"
    /\ value = << "[", "a", "]", SPACE, "[", "b", "]" >>
    /\ selectionStart = 4
    /\ selectionEnd = 7

\* C26: in every reachable state, anchor = -1 implies that no auto-advance
\* timer is pending
C26_IdleNoCountdown == (anchor = -1) => ~advTimer

\* C27: at any time at most one auto-advance timer and at most one
\* idle-snapshot timer is pending: the only pending timeout of either kind
\* is the one its variable names, because every mutation that arms one has
\* cancelled the one before. So the advance that follows a burst is the one
\* armed by its last mutation: it starts from the caret that mutation left,
\* and once it has run nothing is pending until the next mutation.
C27_OnePendingTimer ==
    /\ [](advStray = 0 /\ snapStray = 0)
    /\ [][ (last'.op = "advanceTimer") =>
               /\ advTimer /\ ~advTimer' /\ advStray' = 0
               /\ lastAdvFromPos' = selectionEnd ]_vars
    /\ [][ (last'.op = "dictate" /\ advTimer /\ advTimer') =>
               /\ selectionEnd' = selectionStart'
               /\ ~isCursorInField(value', selectionEnd') ]_vars

\* A second character was typed behind the first: the timers were armed
\* again, and one timeout of each kind is pending
C27_Witness ==
    /\ last.op = "dictate"
    /\ advTimer /\ advStray = 0
    /\ snapshotTimer = "typed" /\ snapStray = 0
    /\ value = << "[", "a", "]", SPACE, "[", "b", "]", "x", "x" >>

\* C28: switching auto-advance off cancels the pending timer and leaves the
\* anchor alone; while it is off no buffer mutation arms the timer; so in
\* every state a pending auto-advance timer implies that auto-advance is on
C28_AutoOff ==
    /\ [](advTimer => auto)
    /\ [][ (auto /\ ~auto') => (~advTimer' /\ anchor' = anchor /\ value' = value) ]_vars
    /\ [][ (last'.op = "dictate" /\ ~auto) => ~advTimer' ]_vars

\* Auto-advance was switched off right after a field was filled: the anchor
\* is still on the field, nothing is pending
C28_Witness ==
    /\ last.op = "toggleAutoAdvance"
    /\ ~auto /\ ~advTimer
    /\ anchor = 0
    /\ value = << "b", "r", "e", "a", "s", "t", SPACE, "m", "a", "s", "s",
                  SPACE, "[", "b", "]" >>
    /\ selectionEnd = 11

\* C29: whenever goToNextField or goPrevField finds a target, the selection
\* is exactly that field, the anchor is its start, no auto-advance timer is
\* pending, the cursor-back watch is off and the buffer is as it was
C29_NavigationEffects ==
    [][ (/\ last'.op \in {"goToNextField", "goPrevField", "advanceTimer"}
         /\ last'.ret = "true") =>
            /\ \E i \in 1..Len(findAllFields(value)) :
                   /\ findAllFields(value)[i].start = selectionStart'
                   /\ findAllFields(value)[i].end = selectionEnd'
            /\ value'[selectionStart' + 1] = "["
            /\ value'[selectionEnd'] = "]"
            /\ anchor' = selectionStart'
            /\ ~advTimer'
            /\ ~watchBack'
            /\ value' = value ]_vars

\* Previous-field from [b] in "[a] [b]": [a] is selected and tracked
C29_Witness ==
    /\ last.op = "goPrevField" /\ last.ret = "true" /\ last.arg = 4
    /\ value = << "[", "a", "]", SPACE, "[", "b", "]" >>
    /\ selectionStart = 0 /\ selectionEnd = 3
    /\ anchor = 0 /\ ~advTimer /\ ~watchBack

LearnDrafts == { << "s", ":", SPACE, "[", "_", "]" >>,
                << "[", "a", "]", SPACE, "[", "b", "]" >> }

\* Learned words loaded by loadFieldPrefs
LoadedLearned == { << >>, << << "n", "o", "d", "e" >> >> }

InitLearn ==
    /\ value \in LearnDrafts
    /\ LET h == recordSnapshot(Tape(<< >>, -1), FALSE, value, "draft")
       IN  historyTape = h.tape /\ historyIdx = h.idx
    /\ selectionStart = 0
    /\ selectionEnd = 0
    /\ format = FORMAT_LN
    /\ lastAutoInsert = NoInsert
    /\ ignoreNext = FALSE
    /\ snapshotTimer = "none"
    /\ snapStray = 0
    /\ restoringFromHistory = FALSE
    /\ last = [op |-> "init", arg |-> -1, ret |-> "void", idx |-> -1, len |-> 0,
               adv |-> << >>, inputType |-> "none", sel |-> << >>,
               moved |-> FALSE]
    /\ anchor = -1
    /\ advTimer = FALSE
    /\ advStray = 0
    /\ auto = TRUE
    /\ learned \in LoadedLearned
    /\ lastAdvRecent = FALSE
    /\ lastAdvFromPos = -1
    /\ lastAdvCtx = << >>
    /\ watchBack = FALSE
    /\ focused = TRUE
    /\ selPending = FALSE
    /\ GrammarIdle

NextLearn ==
    \/ NextField
    \/ ClearLearned
    \/ \E i \in 1..Len(learned) : RemoveLearned(learned[i])

SpecLearn == InitLearn /\ [][NextLearn]_vars

\* the elements of the sequence q
Elements(q) == { q[i] : i \in 1..Len(q) }

C32_ManualBlockRecorded ==
    [][(last'.op = "newBlock" /\ last'.ret = "true")
          => /\ last'.adv # << >>
             /\ historyIdx' >= 0
             /\ historyTape'[historyIdx' + 1].text = value']_vars

\* The handler that ran last made an engine insertion: a reactive trigger
\* (an advance was emitted), the new-block button or handleNewSpecimen
EngineInserted ==
    \/ last.adv # << >>
    \/ last.op \in {"newBlock", "handleNewSpecimen"} /\ last.ret = "true"

\* C35: once a handler in which the engine made an insertion has returned,
\* its own notification delivered, the reentrancy flag _ignoreNext is clear,
\* so the next host edit is evaluated against the triggers
C35_FlagClearAfterInsertion ==
    [][EngineInserted' => ~ignoreNext']_vars

\* Some line of text before pos, the part of pos's own line before it
\* included, is a block label that is neither indented nor a placeholder line
HasRealBlockBefore(text, pos) ==
    LET lines == Split(Substring(text, 0, pos))
    IN  \E k \in 1..Len(lines) :
           /\ ~(lines[k] # << >> /\ IsSpace(lines[k][1]))
           /\ ~PLACEHOLDER_LINE_PATTERN(lines[k]).ok
           /\ parseBlockLine(lines[k], format).ok

\* The position the new-block button looks up from: the start of the
\* placeholder line the selection is on, or else the selection start
NewBlockFrom(text, ss, se) ==
    IF getPlaceholderOnCurrentLine(text, -1, ss, se).ok
    THEN getPlaceholderOnCurrentLine(text, -1, ss, se).lineStart
    ELSE ss

\* The engine did nothing in the step: buffer, selection and lastAutoInsert
\* are as they were and no advance was emitted
EngineIdle ==
    /\ value' = value
    /\ selectionStart' = selectionStart
    /\ selectionEnd' = selectionEnd
    /\ lastAutoInsert' = lastAutoInsert
    /\ last'.adv = << >>

\* C37: with no real block label before the position a trigger looks up
\* from, the trigger does nothing: a typed character stays as the host put
\* it, a selected placeholder stays selected, the new-block button and
\* handleNewSpecimen return false; buffer, selection and lastAutoInsert are
\* untouched by the engine and no advance is emitted
C37_NoBlockNoEffect ==
    [][/\ (/\ last'.op = "type"
           /\ \A c \in EngineChars :
                 ~HasRealBlockBefore(TypedText(c), selectionStart + 1)) =>
             /\ \E c \in EngineChars : value' = TypedText(c)
             /\ selectionStart' = selectionStart + 1
             /\ selectionEnd' = selectionStart + 1
             /\ lastAutoInsert' = lastAutoInsert
             /\ last'.adv = << >>
       /\ (/\ last'.op = "select"
           /\ ~HasRealBlockBefore(value, LineStartOf(value, last'.sel[1]))) =>
             /\ value' = value
             /\ << selectionStart', selectionEnd' >> = last'.sel
             /\ lastAutoInsert' = lastAutoInsert
             /\ last'.adv = << >>
       /\ (/\ last'.op = "newBlock"
           /\ ~HasRealBlockBefore(value, NewBlockFrom(value, selectionStart,
                                                      selectionEnd))) =>
             last'.ret = "false" /\ EngineIdle
       /\ (/\ last'.op = "handleNewSpecimen"
           /\ ~HasRealBlockBefore(value, selectionStart)) =>
             last'.ret = "false" /\ EngineIdle]_vars

\* The new-block button was pressed on a placeholder line with no block
\* above it, and returned false
C37_Witness ==
    /\ last.op = "newBlock"
    /\ last.ret = "false"
    /\ value = << "[", "_", "]", HYPHEN, "u" >>
    /\ lastAutoInsert = NoInsert

\* The handler that ran last made an engine insertion at a caret: a
\* reactive trigger, or a manual operation called with a collapsed selection
InsertedAtCaret ==
    /\ EngineInserted
    /\ last.op \in {"newBlock", "handleNewSpecimen"} => last.sel[1] = last.sel[2]

\* before is after with the text ins put in somewhere
TakenOut(before, after, ins) ==
    \E k \in 0..Len(after) :
        before = Substring(after, 0, k) \o ins \o SubstringFrom(after, k)

\* C38: handleUndo called right after an engine insertion, with nothing
\* edited and the caret not moved in between, returns true and takes
\* exactly the inserted text out of the buffer
C38_InsertUndoRoundTrip ==
    [][(InsertedAtCaret /\ last'.op = "handleUndo") =>
            /\ last'.ret = "true"
            /\ TakenOut(value, value', lastAutoInsert.inserted)]_vars

\* The handler that ran last was an undo, redo or restore that replaced the
\* buffer
JustRestored ==
    \/ last.op \in {"undo", "redo"} /\ last.ret = "true"
    \/ last.op = "restore" /\ last.ret = "restored"

JustCleared == last.op \in {"clearAll", "newSpecimen"} /\ last.ret = "cleared"

\* C33: right after a confirmed clearAll or newSpecimen the buffer is
\* empty, no field is tracked, cursor-back watching is off, neither the
\* advance timer nor the idle-snapshot timer is pending, and the tape is one
\* snapshot of the empty buffer with the index on it; an undo called in that
\* state returns false and leaves the buffer empty
C33_ClearResets ==
    [][/\ JustCleared' =>
             /\ value' = << >>
             /\ anchor' = -1
             /\ ~watchBack'
             /\ ~advTimer' /\ advStray' = 0
             /\ snapshotTimer' = "none" /\ snapStray' = 0
             /\ Len(historyTape') = 1
             /\ historyTape'[1].text = << >>
             /\ historyIdx' = 0
       /\ (JustCleared /\ last'.op = "undo") =>
             /\ last'.ret = "false"
             /\ value' = << >>
             /\ historyTape' = historyTape]_vars

\* An undo found nothing to take back on the tape a clear left: one
\* snapshot of the empty buffer
C33_Witness ==
    /\ last.op = "undo" /\ last.ret = "false"
    /\ value = << >>
    /\ historyTape \in { << [text |-> << >>, label |-> "new case"] >>,
                         << [text |-> << >>, label |-> "new specimen"] >> }

\* C34: whatever was recorded, undone, redone, restored or cleared, the
\* index stays between -1 and the last entry, it is -1 exactly when the tape
\* is empty, and no two neighbouring entries hold the same text
C34_TapeWellFormed ==
    /\ -1 <= historyIdx
    /\ historyIdx <= Len(historyTape) - 1
    /\ (historyIdx = -1) <=> (historyTape = << >>)
    /\ \A i \in 1..(Len(historyTape) - 1) :
           historyTape[i].text # historyTape[i + 1].text

\* A full tape that starts at a clear, stepped back to its first entry
C34_Witness ==
    /\ Len(historyTape) = MAX_HISTORY
    /\ historyTape[1].label \in {"new case", "new specimen"}
    /\ historyIdx = 0
    /\ last.op \in {"undo", "restore"}

\* C40: once an undo, redo or restore has replaced the buffer, no advance
\* timer is pending, so the caret it put at the end of the restored text is
\* not moved by a countdown that was started on the text before it
C40_RestoreEndsCountdown ==
    [][/\ JustRestored' => ~advTimer'
       /\ (JustRestored /\ last'.op = "advanceTimer") =>
             /\ selectionStart' = selectionStart
             /\ selectionEnd' = selectionEnd]_vars
====
